---- MODULE Spec2Model ----
(***************************************************************************)
(* A model of voice-keyboard-linux: the streaming speech-to-text session   *)
(* of src/stt_client.rs (SttClient::connect_and_transcribe) and the        *)
(* transcript-to-keystroke synchronizer of src/virtual_keyboard.rs         *)
(* (VirtualKeyboard over a KeyboardHardware).                              *)
(***************************************************************************)
EXTENDS Integers, Sequences, FiniteSets, TLC

(***************************************************************************)
(* Bounds of the model.                                                    *)
(***************************************************************************)
\* audio chunks the producer pushes in one session
MaxChunks == 2
\* inbound items the server side produces in one session
MaxFrames == 3
\* length of the transcripts enumerated over Alphabet
MaxLen == 2
\* update_transcript / finalize_transcript calls in one run
MaxCalls == 3
\* key events the uinput device takes before a write to it fails
MaxWrites == 2

\* chars after the word "enter"
MaxTrail == 2
\* samples in one block given to add_samples
MaxSamples == 2
\* turns of add_samples' loop that are followed when chunk_size is 0
MaxSpins == 2

(***************************************************************************)
(* Program constants.                                                      *)
(***************************************************************************)
\* mpsc::channel::<Vec<u8>>(32)
CHANNEL_CAPACITY == 32

\* i16::MAX
I16_MAX == 32767

\* chunks pushed in a run that fills the channel
MaxBurst == CHANNEL_CAPACITY + 2

VARIABLES
    \* ---- connect_and_transcribe up to the spawn ------------------------
    env_key,        \* DEEPGRAM_API_KEY: "unset" | "not_unicode" | "empty" |
                    \*   "valid" | "invalid" (no header value can hold it)
    url_ok,         \* whether ws_url.into_client_request() succeeds
    conn_pc,        \* "request" | "header" | "connect" | "active" | "failed"
    authorized,     \* whether the request carries an Authorization header
    attempts,       \* calls of connect_async so far
    \* ---- AudioBuffer ---------------------------------------------------
    config,         \* the arguments of AudioBuffer::new
    chunk_size,     \* AudioBuffer::chunk_size
    buffer,         \* AudioBuffer::buffer
    chunks,         \* add_samples' chunks: what the call returns
    audio_pc,       \* add_samples: "idle" | "drain" (in the while loop)
    audio_last,     \* the last call: which, samples given, backlog before it
    heard,          \* every sample add_samples was given so far, in order
    returned,       \* the bytes of every chunk add_samples returned so far
    \* ---- the session of connect_and_transcribe -------------------------
    audio_rx,       \* chunks queued in the mpsc channel, oldest first
    audio_tx_open,  \* TRUE while the producer still holds audio_tx
    produced,       \* chunks the producer has pushed (or tried to push)
    send_pc,        \* send_task: "recv" | "send_audio" | "send_close" | "done"
    send_res,       \* send_task's return: "none" | "ok" | "err"
    audio_data,     \* the chunk send_task holds between recv and send (0: none)
    sent,           \* frames written to ws_sender, in order
    inbox,          \* items the socket holds for ws_receiver.next(), oldest first
    nframes,        \* inbound items produced so far
    recv_pc,        \* receive_task: "next" | "done"
    recv_res,       \* receive_task's return: "none" | "ok" | "err" | "panic"
    msg,            \* receive_task: the item it took last from ws_receiver
    delivered,      \* the results passed to on_transcription, in order
    handle,         \* the outer JoinHandle: "pending" | "ok" | "err"
    \* ---- VirtualKeyboard<H> and its hardware ---------------------------
    hardware,       \* which KeyboardHardware H is: "Mock" | "Real"
    current_text,   \* VirtualKeyboard::current_text
    typed_chars,    \* Mock: typed_chars; Real: the text of the focused window
    backspace_count,\* press_backspace calls so far (Mock: backspace_count)
    enter_pressed,  \* whether the Enter key was ever pressed (Mock: enter_pressed)
    ops,            \* the KeyboardHardware calls of the last call, in order
    attempted,      \* how many KeyboardHardware calls the last call made
    kb_lock,        \* the results whose closure run holds the keyboard's Mutex
    last,           \* the last call: which, current_text before it, its argument
    calls,          \* calls made so far
    committed,      \* typed_chars as it was at the last reset
    net,            \* chars given to type_text less backspaces, since the last reset
    own,            \* chars on screen that the hardware typed since the last reset
    stolen,         \* backspaces issued while own was 0
    faithful,       \* TRUE while every char given to type_text landed as itself
    keys_down,      \* Real: the keys whose last event was a key-down
    fail_after      \* Real: key events left before send_event fails (Never: none does)

sessVars == <<audio_rx, audio_tx_open, produced, send_pc, send_res, audio_data,
              sent, inbox, nframes, recv_pc, recv_res, msg, delivered,
              handle>>

kbdVars == <<hardware, current_text, typed_chars, backspace_count,
             enter_pressed, ops, attempted, last, calls, committed, net, own, stolen,
             faithful, keys_down, fail_after, kb_lock>>

audioVars == <<config, chunk_size, buffer, chunks, audio_pc, audio_last,
               heard, returned>>

connVars == <<env_key, url_ok, conn_pc, authorized, attempts>>

vars == <<sessVars, kbdVars, audioVars, connVars>>

(***************************************************************************)
(* Key codes of src/input_event.rs.                                        *)
(***************************************************************************)
KEY_1 == 2
KEY_2 == 3
KEY_3 == 4
KEY_4 == 5
KEY_5 == 6
KEY_6 == 7
KEY_7 == 8
KEY_8 == 9
KEY_9 == 10
KEY_0 == 11
KEY_MINUS == 12
KEY_EQUAL == 13
KEY_BACKSPACE == 14
KEY_TAB == 15
KEY_Q == 16
KEY_W == 17
KEY_E == 18
KEY_R == 19
KEY_T == 20
KEY_Y == 21
KEY_U == 22
KEY_I == 23
KEY_O == 24
KEY_P == 25
KEY_LEFTBRACE == 26
KEY_RIGHTBRACE == 27
KEY_ENTER == 28
KEY_A == 30
KEY_S == 31
KEY_D == 32
KEY_F == 33
KEY_G == 34
KEY_H == 35
KEY_J == 36
KEY_K == 37
KEY_L == 38
KEY_SEMICOLON == 39
KEY_APOSTROPHE == 40
KEY_GRAVE == 41
KEY_LEFTSHIFT == 42
KEY_BACKSLASH == 43
KEY_Z == 44
KEY_X == 45
KEY_C == 46
KEY_V == 47
KEY_B == 48
KEY_N == 49
KEY_M == 50
KEY_COMMA == 51
KEY_DOT == 52
KEY_SLASH == 53
KEY_SPACE == 57

LowerLetters ==
  <<"a", "b", "c", "d", "e", "f", "g", "h", "i", "j", "k", "l", "m", "n",
    "o", "p", "q", "r", "s", "t", "u", "v", "w", "x", "y", "z">>

UpperLetters ==
  <<"A", "B", "C", "D", "E", "F", "G", "H", "I", "J", "K", "L", "M", "N",
    "O", "P", "Q", "R", "S", "T", "U", "V", "W", "X", "Y", "Z">>

Digits == <<"0", "1", "2", "3", "4", "5", "6", "7", "8", "9">>

LetterKeys ==
  <<KEY_A, KEY_B, KEY_C, KEY_D, KEY_E, KEY_F, KEY_G, KEY_H, KEY_I, KEY_J,
    KEY_K, KEY_L, KEY_M, KEY_N, KEY_O, KEY_P, KEY_Q, KEY_R, KEY_S, KEY_T,
    KEY_U, KEY_V, KEY_W, KEY_X, KEY_Y, KEY_Z>>

SymbolArms ==
  {<<" ", KEY_SPACE, FALSE>>, <<"\n", KEY_ENTER, FALSE>>,
   <<"\t", KEY_TAB, FALSE>>, <<"!", KEY_1, TRUE>>, <<"@", KEY_2, TRUE>>,
   <<"#", KEY_3, TRUE>>, <<"$", KEY_4, TRUE>>, <<"%", KEY_5, TRUE>>,
   <<"^", KEY_6, TRUE>>, <<"&", KEY_7, TRUE>>, <<"*", KEY_8, TRUE>>,
   <<"(", KEY_9, TRUE>>, <<")", KEY_0, TRUE>>, <<"-", KEY_MINUS, FALSE>>,
   <<"_", KEY_MINUS, TRUE>>, <<"=", KEY_EQUAL, FALSE>>,
   <<"+", KEY_EQUAL, TRUE>>, <<"[", KEY_LEFTBRACE, FALSE>>,
   <<"{", KEY_LEFTBRACE, TRUE>>, <<"]", KEY_RIGHTBRACE, FALSE>>,
   <<"}", KEY_RIGHTBRACE, TRUE>>, <<"\\", KEY_BACKSLASH, FALSE>>,
   <<"|", KEY_BACKSLASH, TRUE>>, <<";", KEY_SEMICOLON, FALSE>>,
   <<":", KEY_SEMICOLON, TRUE>>, <<"'", KEY_APOSTROPHE, FALSE>>,
   <<"\"", KEY_APOSTROPHE, TRUE>>, <<"U+0060", KEY_GRAVE, FALSE>>,
   <<"~", KEY_GRAVE, TRUE>>, <<",", KEY_COMMA, FALSE>>,
   <<"<", KEY_COMMA, TRUE>>, <<".", KEY_DOT, FALSE>>,
   <<">", KEY_DOT, TRUE>>, <<"/", KEY_SLASH, FALSE>>,
   <<"?", KEY_SLASH, TRUE>>}

KeyLegends ==
  {<<KEY_A, "a", "A">>, <<KEY_B, "b", "B">>, <<KEY_C, "c", "C">>,
   <<KEY_D, "d", "D">>, <<KEY_E, "e", "E">>, <<KEY_F, "f", "F">>,
   <<KEY_G, "g", "G">>, <<KEY_H, "h", "H">>, <<KEY_I, "i", "I">>,
   <<KEY_J, "j", "J">>, <<KEY_K, "k", "K">>, <<KEY_L, "l", "L">>,
   <<KEY_M, "m", "M">>, <<KEY_N, "n", "N">>, <<KEY_O, "o", "O">>,
   <<KEY_P, "p", "P">>, <<KEY_Q, "q", "Q">>, <<KEY_R, "r", "R">>,
   <<KEY_S, "s", "S">>, <<KEY_T, "t", "T">>, <<KEY_U, "u", "U">>,
   <<KEY_V, "v", "V">>, <<KEY_W, "w", "W">>, <<KEY_X, "x", "X">>,
   <<KEY_Y, "y", "Y">>, <<KEY_Z, "z", "Z">>, <<KEY_1, "1", "!">>,
   <<KEY_2, "2", "@">>, <<KEY_3, "3", "#">>, <<KEY_4, "4", "$">>,
   <<KEY_5, "5", "%">>, <<KEY_6, "6", "^">>, <<KEY_7, "7", "&">>,
   <<KEY_8, "8", "*">>, <<KEY_9, "9", "(">>, <<KEY_0, "0", ")">>,
   <<KEY_MINUS, "-", "_">>, <<KEY_EQUAL, "=", "+">>,
   <<KEY_LEFTBRACE, "[", "{">>, <<KEY_RIGHTBRACE, "]", "}">>,
   <<KEY_BACKSLASH, "\\", "|">>, <<KEY_SEMICOLON, ";", ":">>,
   <<KEY_APOSTROPHE, "'", "\"">>, <<KEY_GRAVE, "U+0060", "~">>,
   <<KEY_COMMA, ",", "<">>, <<KEY_DOT, ".", ">">>, <<KEY_SLASH, "/", "?">>,
   <<KEY_SPACE, " ", " ">>, <<KEY_TAB, "\t", "\t">>}

AsciiPunct ==
  {"!", "\"", "#", "$", "%", "&", "'", "(", ")", "*", "+", ",", "-", ".",
   "/", ":", ";", "<", "=", ">", "?", "@", "[", "\\", "]", "^", "_", "U+0060",
   "{", "|", "}", "~"}

(***************************************************************************)
(* connect_and_transcribe up to the spawn of the tasks: the request, the   *)
(* Authorization header from the environment, the connection.              *)
(***************************************************************************)
\* env::var yields Err for a variable that is not set and for one whose value
\* is not valid Unicode; HeaderValue::from_str fails on "invalid"
EnvKeys == {"unset", "not_unicode", "empty", "valid", "invalid"}

\* the call of connect_and_transcribe
ConnInit ==
    /\ env_key \in EnvKeys
    /\ url_ok \in BOOLEAN
    /\ conn_pc = "request"
    /\ authorized = FALSE
    /\ attempts = 0

\* the state in which connect_and_transcribe has returned Ok((audio_tx, handle))
ConnActive ==
    /\ env_key = "valid"
    /\ url_ok = TRUE
    /\ conn_pc = "active"
    /\ authorized = TRUE
    /\ attempts = 1

\* ws_url.into_client_request().context(..)?
BuildRequest ==
    /\ conn_pc = "request"
    /\ conn_pc' = IF url_ok THEN "header" ELSE "failed"
    /\ UNCHANGED <<env_key, url_ok, authorized, attempts, sessVars, kbdVars,
                   audioVars>>

\* an environment read that also fails on a value that is not Unicode
AuthHeader_Strict ==
    /\ conn_pc = "header"
    /\ CASE env_key \in {"unset", "empty"} ->
              conn_pc' = "connect" /\ authorized' = FALSE
         [] env_key = "valid" ->
              conn_pc' = "connect" /\ authorized' = TRUE
         [] env_key \in {"invalid", "not_unicode"} ->
              conn_pc' = "failed" /\ authorized' = FALSE
    /\ UNCHANGED <<env_key, url_ok, attempts, sessVars, kbdVars, audioVars>>

\* if let Ok(api_key) = env::var(..) { if !api_key.is_empty() { match
\* HeaderValue::from_str(..) { Ok(hv) => insert, Err(_) => bail!(..) } } }
AuthHeader ==
    /\ conn_pc = "header"
    /\ CASE env_key \in {"unset", "not_unicode", "empty"} ->
              conn_pc' = "connect" /\ authorized' = FALSE
         [] env_key = "valid" ->
              conn_pc' = "connect" /\ authorized' = TRUE
         [] env_key = "invalid" ->
              conn_pc' = "failed" /\ authorized' = FALSE
    /\ UNCHANGED <<env_key, url_ok, attempts, sessVars, kbdVars, audioVars>>

\* a connect that is tried again after it failed
ConnectAsync_Retry ==
    /\ conn_pc = "connect"
    /\ attempts < 2
    /\ attempts' = attempts + 1
    /\ \E ok \in BOOLEAN : conn_pc' = IF ok THEN "active" ELSE "connect"
    /\ UNCHANGED <<env_key, url_ok, authorized, sessVars, kbdVars, audioVars>>

\* connect_async(request).await.map_err(enrich_ws_error)?; then the split, the
\* channel and the spawn: the session starts in the state of SessionInit
ConnectAsync ==
    /\ conn_pc = "connect"
    /\ attempts' = attempts + 1
    /\ \E ok \in BOOLEAN : conn_pc' = IF ok THEN "active" ELSE "failed"
    /\ UNCHANGED <<env_key, url_ok, authorized, sessVars, kbdVars, audioVars>>

ConnNext ==
    \/ BuildRequest
    \/ AuthHeader
    \/ ConnectAsync

(***************************************************************************)
(* Text.  A String is the sequence of its chars; a char is written as a    *)
(* one-character string, but for "U+0060", the grave accent, and "U+00E9", *)
(* the char e-acute, two bytes long in UTF-8 and without an arm in         *)
(* char_to_keycode.                                                        *)
(***************************************************************************)
NonAscii == {"U+00E9"}

RangeOf(s) == {s[i] : i \in 1..Len(s)}

\* char::len_utf8
len_utf8(c) == IF c \in NonAscii THEN 2 ELSE 1

\* String::len: the length in bytes
RECURSIVE str_len(_)
str_len(s) == IF s = <<>> THEN 0 ELSE len_utf8(Head(s)) + str_len(Tail(s))

\* &s[from..]: the chars from byte offset from on (a char boundary)
RECURSIVE slice_from(_, _)
slice_from(s, from) ==
    IF from <= 0 \/ s = <<>> THEN s
    ELSE slice_from(Tail(s), from - len_utf8(Head(s)))

\* &s[..to]: the chars before byte offset to (a char boundary)
RECURSIVE slice_to(_, _)
slice_to(s, to) ==
    IF to <= 0 \/ s = <<>> THEN <<>>
    ELSE <<Head(s)>> \o slice_to(Tail(s), to - len_utf8(Head(s)))

\* str::starts_with
starts_with(s, prefix) ==
    /\ Len(prefix) <= Len(s)
    /\ SubSeq(s, 1, Len(prefix)) = prefix

\* the common prefix counted in bytes, as a.len() would count it
RECURSIVE common_prefix_len_bytes(_, _)
common_prefix_len_bytes(a, b) ==
    IF a = <<>> \/ b = <<>> THEN 0
    ELSE IF Head(a) # Head(b) THEN 0
    ELSE len_utf8(Head(a)) + common_prefix_len_bytes(Tail(a), Tail(b))

\* a count that stops one char short of the common prefix
RECURSIVE common_prefix_len_less_one(_, _)
common_prefix_len_less_one(a, b) ==
    IF Len(a) < 2 \/ Len(b) < 2 THEN 0
    ELSE IF a[1] # b[1] \/ a[2] # b[2] THEN 0
    ELSE 1 + common_prefix_len_less_one(Tail(a), Tail(b))

\* a.chars().zip(b.chars()).take_while(|(a, b)| a == b).count()
RECURSIVE common_prefix_len(_, _)
common_prefix_len(a, b) ==
    IF a = <<>> \/ b = <<>> THEN 0
    ELSE IF Head(a) # Head(b) THEN 0
    ELSE 1 + common_prefix_len(Tail(a), Tail(b))

(***************************************************************************)
(* char_to_keycode of src/input_event.rs: Some((keycode, needs_shift)) or  *)
(* None.                                                                   *)
(***************************************************************************)
None == [some |-> FALSE, keycode |-> 0, shift |-> FALSE]

Some(k, s) == [some |-> TRUE, keycode |-> k, shift |-> s]

IndexIn(seq, c) == CHOOSE i \in 1..Len(seq) : seq[i] = c

char_to_keycode(c) ==
    IF c \in RangeOf(LowerLetters)
    THEN Some(LetterKeys[IndexIn(LowerLetters, c)], FALSE)
    ELSE IF c \in RangeOf(UpperLetters)
    THEN Some(LetterKeys[IndexIn(UpperLetters, c)], TRUE)
    ELSE IF c \in RangeOf(Digits)
    THEN Some(KEY_0 + (IndexIn(Digits, c) - 1), FALSE)
    ELSE IF \E a \in SymbolArms : a[1] = c
    THEN LET arm == CHOOSE a \in SymbolArms : a[1] = c
         IN  Some(arm[2], arm[3])
    ELSE None

\* the char a key of KeyLegends gives under the US layout
us_layout(keycode, shift) ==
    LET key == CHOOSE k \in KeyLegends : k[1] = keycode
    IN  IF shift THEN key[3] ELSE key[2]

(***************************************************************************)
(* The KeyboardHardware calls a VirtualKeyboard method makes.              *)
(***************************************************************************)
Backspace == [op |-> "press_backspace", text |-> <<>>]

Enter == [op |-> "press_enter", text |-> <<>>]

TypeText(text) == [op |-> "type_text", text |-> text]

Repeat(x, n) == [i \in 1..n |-> x]

(***************************************************************************)
(* VirtualKeyboard.  Each method is the pair of the hardware calls it      *)
(* makes, in order, when every one returns Ok, and the current_text it     *)
(* then leaves.                                                            *)
(***************************************************************************)
\* one backspace per byte, as current_text.len() would count them
backspace_current_text_bytes(cur) ==
    [ops |-> Repeat(Backspace, str_len(cur)), text |-> <<>>]

\* for _ in 0..current_text.chars().count() { press_backspace()? }; clear()
backspace_current_text(cur) ==
    [ops |-> Repeat(Backspace, Len(cur)), text |-> <<>>]

clear_current_text(cur) ==
    IF cur # <<>> THEN backspace_current_text(cur)
    ELSE [ops |-> <<>>, text |-> cur]

\* an update that erases all of current_text and types the transcript anew
update_transcript_retype(cur, new_transcript) ==
    IF new_transcript = <<>>
    THEN clear_current_text(cur)
    ELSE [ops |-> Repeat(Backspace, Len(cur)) \o <<TypeText(new_transcript)>>,
          text |-> new_transcript]

\* an update that types the new ending before it backspaces
update_transcript_type_first(cur, new_transcript) ==
    IF new_transcript = <<>>
    THEN clear_current_text(cur)
    ELSE IF starts_with(new_transcript, cur)
    THEN LET new_chars == slice_from(new_transcript, str_len(cur))
         IN  IF new_chars # <<>>
             THEN [ops |-> <<TypeText(new_chars)>>, text |-> new_transcript]
             ELSE [ops |-> <<>>, text |-> cur]
    ELSE LET prefix_len == common_prefix_len(cur, new_transcript)
             chars_to_backspace == Len(cur) - prefix_len
             new_ending == SubSeq(new_transcript, prefix_len + 1,
                                  Len(new_transcript))
         IN  [ops |-> (IF prefix_len < Len(new_transcript)
                       THEN <<TypeText(new_ending)>> ELSE <<>>)
                      \o Repeat(Backspace, chars_to_backspace),
              text |-> new_transcript]

update_transcript(cur, new_transcript) ==
    IF new_transcript = <<>>
    THEN clear_current_text(cur)
    ELSE IF starts_with(new_transcript, cur)
    THEN LET new_chars == slice_from(new_transcript, str_len(cur))
         IN  IF new_chars # <<>>
             THEN [ops |-> <<TypeText(new_chars)>>, text |-> new_transcript]
             ELSE [ops |-> <<>>, text |-> cur]
    ELSE LET prefix_len == common_prefix_len(cur, new_transcript)
             chars_to_backspace == Len(cur) - prefix_len
             new_ending == SubSeq(new_transcript, prefix_len + 1,
                                  Len(new_transcript))
         IN  [ops |-> Repeat(Backspace, chars_to_backspace)
                      \o (IF prefix_len < Len(new_transcript)
                          THEN <<TypeText(new_ending)>> ELSE <<>>),
              text |-> new_transcript]

(***************************************************************************)
(* enter_regex: (?i)\s*\benter\b[[:punct:]\s]*$                            *)
(***************************************************************************)
\* \s
is_whitespace(c) == c \in {" ", "\t", "\n"}

\* [[:punct:]]
is_punct(c) == c \in AsciiPunct

\* \w, which decides \b
is_word_char(c) ==
    c \in RangeOf(LowerLetters) \cup RangeOf(UpperLetters)
          \cup RangeOf(Digits) \cup {"_"} \cup NonAscii

\* the regex without (?i)
fold_none(c) == c

\* (?i): simple case folding of a letter of "enter"
fold(c) ==
    IF c \in RangeOf(UpperLetters)
    THEN LowerLetters[IndexIn(UpperLetters, c)] ELSE c

\* \b between the chars p - 1 and p of s
is_word_boundary(s, p) ==
    (p > 1 /\ is_word_char(s[p - 1])) # (p <= Len(s) /\ is_word_char(s[p]))

EnterWord == <<"e", "n", "t", "e", "r">>

\* the regex without the closing $: anything may follow the word
enter_regex_is_match_at_no_end(s, i) ==
    \E j \in i..(Len(s) - 4) :
        /\ \A k \in i..(j - 1) : is_whitespace(s[k])
        /\ is_word_boundary(s, j)
        /\ \A k \in 1..5 : fold(s[j + k - 1]) = EnterWord[k]
        /\ is_word_boundary(s, j + 5)

\* the regex without the two \b
enter_regex_is_match_at_no_b(s, i) ==
    \E j \in i..(Len(s) - 4) :
        /\ \A k \in i..(j - 1) : is_whitespace(s[k])
        /\ \A k \in 1..5 : fold(s[j + k - 1]) = EnterWord[k]
        /\ \A k \in (j + 5)..Len(s) : is_punct(s[k]) \/ is_whitespace(s[k])

\* whether the regex matches the chars i..Len(s) of s: whitespace up to j, the
\* word at j, then punctuation and whitespace to the end
enter_regex_is_match_at(s, i) ==
    \E j \in i..(Len(s) - 4) :
        /\ \A k \in i..(j - 1) : is_whitespace(s[k])
        /\ is_word_boundary(s, j)
        /\ \A k \in 1..5 : fold(s[j + k - 1]) = EnterWord[k]
        /\ is_word_boundary(s, j + 5)
        /\ \A k \in (j + 5)..Len(s) : is_punct(s[k]) \/ is_whitespace(s[k])

\* the find of a regex without the leading \s*: the match starts at the word
enter_regex_find_word(s) ==
    LET starts == {i \in 1..Len(s) :
                      enter_regex_is_match_at(s, i) /\ ~is_whitespace(s[i])}
    IN  IF starts = {}
        THEN [found |-> FALSE, start |-> 0, chars |-> 0]
        ELSE LET i == CHOOSE m \in starts : \A k \in starts : m <= k
             IN  [found |-> TRUE,
                  start |-> str_len(SubSeq(s, 1, i - 1)),
                  chars |-> Len(s) - i + 1]

\* Regex::find: the leftmost match; start is m.start(), a byte offset, and
\* chars is m.as_str().chars().count()
enter_regex_find(s) ==
    LET starts == {i \in 1..Len(s) : enter_regex_is_match_at(s, i)}
    IN  IF starts = {}
        THEN [found |-> FALSE, start |-> 0, chars |-> 0]
        ELSE LET i == CHOOSE m \in starts : \A k \in starts : m <= k
             IN  [found |-> TRUE,
                  start |-> str_len(SubSeq(s, 1, i - 1)),
                  chars |-> Len(s) - i + 1]

\* a finalize that leaves out the last current_text.clear()
finalize_transcript_no_clear(cur) ==
    LET m == enter_regex_find(cur)
    IN  IF m.found
        THEN [ops |-> Repeat(Backspace, m.chars) \o <<Enter>>,
              mid |-> slice_to(cur, m.start),
              text |-> slice_to(cur, m.start)]
        ELSE [ops |-> <<>>, mid |-> cur, text |-> cur]

\* a finalize that clears current_text only after a commit
finalize_transcript_clear_on_match(cur) ==
    LET m == enter_regex_find(cur)
    IN  IF m.found
        THEN [ops |-> Repeat(Backspace, m.chars) \o <<Enter>>,
              mid |-> slice_to(cur, m.start),
              text |-> <<>>]
        ELSE [ops |-> <<>>, mid |-> cur, text |-> cur]

\* mid is current_text between the last backspace and press_enter
finalize_transcript(cur) ==
    LET m == enter_regex_find(cur)
    IN  IF m.found
        THEN [ops |-> Repeat(Backspace, m.chars) \o <<Enter>>,
              mid |-> slice_to(cur, m.start),
              text |-> <<>>]
        ELSE [ops |-> <<>>, mid |-> cur, text |-> <<>>]

(***************************************************************************)
(* The hardware.  h is the record of the state of the hardware and of what *)
(* the model counts about it; h.result is the Result of the calls made so  *)
(* far, and a call made after an Err is a call that the ? operator of the  *)
(* caller has skipped.                                                     *)
(***************************************************************************)
Never == 0 - 1

Pop(s) == IF s = <<>> THEN s ELSE SubSeq(s, 1, Len(s) - 1)

\* what a key-down event does to the focused window
key_down(h, keycode) ==
    IF keycode = KEY_LEFTSHIFT THEN h
    ELSE IF keycode = KEY_BACKSPACE
    THEN [h EXCEPT !.typed_chars = Pop(@),
                   !.own = IF @ = 0 THEN 0 ELSE @ - 1]
    ELSE IF keycode = KEY_ENTER
    THEN [h EXCEPT !.enter_pressed = TRUE]
    ELSE [h EXCEPT !.typed_chars =
                       Append(@, us_layout(keycode, KEY_LEFTSHIFT \in h.down)),
                   !.own = @ + 1]

\* RealKeyboardHardware::send_key(keycode, pressed)?
send_key(h, keycode, pressed) ==
    IF h.result = "Err" THEN h
    ELSE IF h.left = 0 THEN [h EXCEPT !.result = "Err"]
    ELSE LET written ==
                 [h EXCEPT !.left = IF @ = Never THEN @ ELSE @ - 1,
                           !.down = IF pressed THEN @ \cup {keycode}
                                    ELSE @ \ {keycode}]
         IN  IF pressed THEN key_down(written, keycode) ELSE written

\* RealKeyboardHardware::press_key
press_key(h, keycode) ==
    send_key(send_key(h, keycode, TRUE), keycode, FALSE)

\* one turn of the loop of RealKeyboardHardware::type_text
real_type_char(h, c) ==
    LET code == char_to_keycode(c)
    IN  IF code.some
        THEN IF code.shift
             THEN send_key(
                      send_key(
                          send_key(send_key(h, KEY_LEFTSHIFT, TRUE),
                                   code.keycode, TRUE),
                          code.keycode, FALSE),
                      KEY_LEFTSHIFT, FALSE)
             ELSE press_key(h, code.keycode)
        ELSE \* warn!("Unsupported character")
             h

\* one turn of the loop of MockKeyboardHardware::type_text
mock_type_char(h, c) ==
    [h EXCEPT !.typed_chars = Append(@, c), !.own = @ + 1]

\* one char of KeyboardHardware::type_text
type_char(kind, h, c) ==
    LET h1 == IF kind = "Mock" THEN mock_type_char(h, c)
              ELSE real_type_char(h, c)
    IN  IF h1.result = "Err" THEN h1
        ELSE [h1 EXCEPT !.net = Append(@, c),
                        !.faithful =
                            @ /\ h1.typed_chars = Append(h.typed_chars, c)]

\* KeyboardHardware::type_text
RECURSIVE type_text(_, _, _)
type_text(kind, h, text) ==
    IF text = <<>> \/ h.result = "Err" THEN h
    ELSE type_text(kind, type_char(kind, h, Head(text)), Tail(text))

\* KeyboardHardware::press_backspace
press_backspace(kind, h) ==
    LET h1 == IF kind = "Mock"
              THEN [h EXCEPT !.typed_chars = Pop(@),
                             !.own = IF @ = 0 THEN 0 ELSE @ - 1]
              ELSE press_key(h, KEY_BACKSPACE)
    IN  IF h1.result = "Err" THEN h1
        ELSE [h1 EXCEPT !.backspace_count = @ + 1,
                        !.net = Pop(@),
                        !.stolen = IF h.own = 0 THEN @ + 1 ELSE @]

\* KeyboardHardware::press_enter
press_enter(kind, h) ==
    IF kind = "Mock"
    THEN [h EXCEPT !.enter_pressed = TRUE]
    ELSE press_key(h, KEY_ENTER)

\* one call of the KeyboardHardware trait, followed by ?
apply_op(kind, h, c) ==
    LET h0 == [h EXCEPT !.attempted = @ + 1]
        h1 == CASE c.op = "press_backspace" -> press_backspace(kind, h0)
                [] c.op = "press_enter" -> press_enter(kind, h0)
                [] c.op = "type_text" -> type_text(kind, h0, c.text)
    IN  IF h1.result = "Err" THEN h1 ELSE [h1 EXCEPT !.done = @ + 1]


\* calls that go on after one of them has returned Err
RECURSIVE apply_ops_no_abort(_, _, _)
apply_ops_no_abort(kind, h, calls_) ==
    IF calls_ = <<>> \/ h.attempted < 0 THEN h
    ELSE apply_ops_no_abort(kind, apply_op(kind, h, Head(calls_)),
                            Tail(calls_))

\* the calls a method makes, in order, up to the first that fails
RECURSIVE apply_ops(_, _, _)
apply_ops(kind, h, calls_) ==
    IF calls_ = <<>> \/ h.result = "Err" THEN h
    ELSE apply_ops(kind, apply_op(kind, h, Head(calls_)), Tail(calls_))

(***************************************************************************)
(* The keyboard's runs: a VirtualKeyboard::new(hardware) and then calls of *)
(* update_transcript and finalize_transcript.                              *)
(***************************************************************************)
Alphabet == {"a", "U+00E9"}

SeqsUpTo(S, n) == UNION {[1..k -> S] : k \in 0..n}

DraftAMemoEnter ==
    <<"d", "r", "a", "f", "t", " ", "a", " ", "m", "e", "m", "o", " ",
      "e", "n", "t", "e", "r">>

FixThisCentersEnter ==
    <<"f", "i", "x", " ", "t", "h", "i", "s", " ", "c", "e", "n", "t", "e",
      "r", "s", " ", "e", "n", "t", "e", "r", "!", "!", " ">>

Samples ==
    { DraftAMemoEnter, FixThisCentersEnter,
      <<"e", "n", "t", "e", "r">>,
      <<"a", " ", " ", "E", "n", "t", "e", "r", ".">>,
      <<"U+00E9", " ", "e", "n", "t", "e", "r">>,
      <<"c", "e", "n", "t", "e", "r">> }

Transcripts == SeqsUpTo(Alphabet, MaxLen) \cup Samples

NoCall ==
    [call |-> "none", before |-> <<>>, arg |-> <<>>, base |-> <<>>,
     screen |-> <<>>, result |-> "Ok"]

\* VirtualKeyboard::new(hardware); a Mock has no device that can fail
KeyboardInit ==
    /\ hardware \in {"Mock", "Real"}
    /\ current_text = <<>>
    /\ typed_chars = <<>>
    /\ backspace_count = 0
    /\ enter_pressed = FALSE
    /\ ops = <<>>
    /\ attempted = 0
    /\ last = NoCall
    /\ kb_lock = <<>>
    /\ calls = 0
    /\ committed = <<>>
    /\ net = <<>>
    /\ own = 0
    /\ stolen = 0
    /\ faithful = TRUE
    /\ keys_down = {}
    /\ fail_after \in {Never} \cup 0..MaxWrites
    /\ hardware = "Mock" => fail_after = Never

\* the hardware as a call finds it
HwState ==
    [typed_chars |-> typed_chars, backspace_count |-> backspace_count,
     enter_pressed |-> enter_pressed, net |-> net, own |-> own,
     stolen |-> stolen, faithful |-> faithful, down |-> keys_down,
     left |-> fail_after, result |-> "Ok", done |-> 0, attempted |-> 0]

\* the calls issued out of those a method makes when none fails: the ones that
\* returned Ok and the one that failed
Issued(calls_, h) ==
    IF h.result = "Ok" THEN calls_ ELSE SubSeq(calls_, 1, h.done + 1)

\* the hardware after a call; a call that resets current_text starts a new
\* count of what is on screen
AfterCall(h, reset) ==
    /\ typed_chars' = h.typed_chars
    /\ backspace_count' = h.backspace_count
    /\ enter_pressed' = h.enter_pressed
    /\ stolen' = h.stolen
    /\ faithful' = h.faithful
    /\ keys_down' = h.down
    /\ fail_after' = h.left
    /\ committed' = IF reset THEN h.typed_chars ELSE committed
    /\ net' = IF reset THEN <<>> ELSE h.net
    /\ own' = IF reset THEN 0 ELSE h.own

\* one call of update_transcript(new_transcript) on the keyboard
Update(new_transcript) ==
    LET r == update_transcript(current_text, new_transcript)
        h == apply_ops(hardware, HwState, r.ops)
    IN  /\ current_text' = IF h.result = "Ok" THEN r.text ELSE current_text
        /\ ops' = Issued(r.ops, h)
        /\ attempted' = h.attempted
        /\ last' = [call |-> "update", before |-> current_text,
                    arg |-> new_transcript, base |-> committed,
                    screen |-> typed_chars, result |-> h.result]
        /\ AfterCall(h, new_transcript = <<>> /\ h.result = "Ok")
        /\ calls' = calls + 1
        /\ UNCHANGED hardware

\* one call of finalize_transcript() on the keyboard
Finalize ==
    LET r == finalize_transcript(current_text)
        h == apply_ops(hardware, HwState, r.ops)
    IN  /\ current_text' =
               IF h.result = "Ok" THEN r.text
               ELSE IF h.done = Len(r.ops) - 1 THEN r.mid
               ELSE current_text
        /\ ops' = Issued(r.ops, h)
        /\ attempted' = h.attempted
        /\ last' = [call |-> "finalize", before |-> current_text,
                    arg |-> <<>>, base |-> committed,
                    screen |-> typed_chars, result |-> h.result]
        /\ AfterCall(h, h.result = "Ok")
        /\ calls' = calls + 1
        /\ UNCHANGED hardware

UpdateTranscript ==
    /\ calls < MaxCalls
    /\ \E new_transcript \in Transcripts : Update(new_transcript)
    /\ UNCHANGED <<sessVars, audioVars, connVars, kb_lock>>

FinalizeTranscript ==
    /\ calls < MaxCalls
    /\ Finalize
    /\ UNCHANGED <<sessVars, audioVars, connVars, kb_lock>>

KeyboardNext ==
    \/ UpdateTranscript
    \/ FinalizeTranscript

(***************************************************************************)
(* A turn that is dictated in one result and then ended: the texts on      *)
(* which the enter command is decided.                                     *)
(***************************************************************************)
Upper(c) == UpperLetters[IndexIn(LowerLetters, c)]

\* the 32 ways of writing the word in upper and lower case
CaseVariants ==
    { [k \in 1..5 |-> IF b[k] THEN Upper(EnterWord[k]) ELSE EnterWord[k]] :
        b \in [1..5 -> BOOLEAN] }

TrailerChars == AsciiPunct \cup {" ", "\t", "\n"}

Trailers == SeqsUpTo(TrailerChars, MaxTrail)

Leads == { <<>>, <<"a", " ">> }

EnterTheRoom == <<"e", "n", "t", "e", "r", " ", "t", "h", "e", " ", "r", "o", "o", "m">>

HelloEnterNow == <<"h", "e", "l", "l", "o", " ", "e", "n", "t", "e", "r", " ", "n", "o", "w">>

LongerWords == { <<"e", "n", "t", "e", "r", "i", "n", "g">>,
      <<"e", "n", "t", "e", "r", "e", "d">>,
      <<"c", "e", "n", "t", "e", "r">>,
      <<"e", "n", "t", "e", "r", "p", "r", "i", "s", "e">> }

EnterTexts ==
    { EnterWord \o t : t \in Trailers }
      \cup { l \o EnterWord \o <<c>> : l \in Leads, c \in TrailerChars }
      \cup { l \o w : l \in Leads, w \in CaseVariants }
      \cup { <<"E", "N", "T", "E", "R", "!", " ">> }
      \cup LongerWords \cup { EnterTheRoom, HelloEnterNow }

\* the turn's text arrives in one result
DictateEnter ==
    /\ calls = 0
    /\ \E new_transcript \in EnterTexts : Update(new_transcript)
    /\ UNCHANGED <<sessVars, audioVars, connVars, kb_lock>>

EnterNext ==
    \/ DictateEnter
    \/ FinalizeTranscript

(***************************************************************************)
(* A turn of digits: the texts whose chars take the '0'..='9' arm of        *)
(* char_to_keycode.                                                        *)
(***************************************************************************)
DigitTexts == SeqsUpTo(RangeOf(Digits), MaxLen) \ {<<>>}

\* the turn's digits arrive in one result
DictateDigits ==
    /\ calls = 0
    /\ \E new_transcript \in DigitTexts : Update(new_transcript)
    /\ UNCHANGED <<sessVars, audioVars, connVars, kb_lock>>

DigitsNext ==
    \/ DictateDigits
    \/ FinalizeTranscript

(***************************************************************************)
(* AudioBuffer.  A sample is written in halves: the f32 sample x / 2, so   *)
(* that every sample and every product below is exact in f32.  A byte is a *)
(* number of 0..255.                                                       *)
(***************************************************************************)
\* a chunk size counted in samples, not in bytes
new_chunk_size_samples(rate, duration_ms) == (rate * duration_ms) \div 1000

\* AudioBuffer::new: u32 arithmetic, from left to right
new_chunk_size(rate, duration_ms) == ((rate * duration_ms) \div 1000) * 2

\* sample.clamp(-1.0, 1.0)
clamp(x) == IF x < 0 - 2 THEN 0 - 2 ELSE IF x > 2 THEN 2 ELSE x

\* (sample.clamp(-1.0, 1.0) * i16::MAX as f32) as i16: the cast truncates
\* toward zero
pcm_sample(x) ==
    LET twice == clamp(x) * I16_MAX
    IN  IF twice >= 0 THEN twice \div 2 ELSE 0 - ((0 - twice) \div 2)

\* i16::to_le_bytes
to_le_bytes(v) ==
    LET u == v % 65536
    IN  <<u % 256, u \div 256>>

\* samples.iter().flat_map(..).collect(): the bytes 2k - 1 and 2k are the
\* low and the high byte of the k-th sample
pcm_data(samples) ==
    [i \in 1..(2 * Len(samples)) |->
        to_le_bytes(pcm_sample(samples[(i + 1) \div 2]))[2 - (i % 2)]]

\* -1.5, -0.5, 0.0 and 1.0
SampleValues == {0 - 3, 0 - 1, 0, 2}

\* <<sample_rate, chunk_duration_ms>>: chunk sizes 2560, 2, 4, 2, 6 and 0
Configs ==
    { <<16000, 80>>, <<1000, 1>>, <<1000, 2>>, <<1500, 1>>, <<1000, 3>>,
      <<500, 1>> }

\* 3200 samples, as a device delivers 200 ms of 16 kHz mono
BigBlock == [i \in 1..3200 |-> IF i % 2 = 0 THEN 2 ELSE 0 - 1]

\* the blocks a call of add_samples is given for a buffer of that chunk size
Blocks(size) ==
    IF size >= 2560 THEN {BigBlock} ELSE SeqsUpTo(SampleValues, MaxSamples)

NoAudioCall == [call |-> "none", samples |-> 0, backlog |-> 0]

\* AudioBuffer::new(sample_rate, chunk_duration_ms)
AudioInit ==
    /\ config \in Configs
    /\ chunk_size = new_chunk_size(config[1], config[2])
    /\ buffer = <<>>
    /\ chunks = <<>>
    /\ audio_pc = "idle"
    /\ audio_last = NoAudioCall
    /\ heard = <<>>
    /\ returned = <<>>

\* the chunks of one call, end to end
RECURSIVE Flatten(_)
Flatten(cs) == IF cs = <<>> THEN <<>> ELSE Head(cs) \o Flatten(Tail(cs))

\* the calls go on while few samples were given: MaxSamples of them, or one
\* block of a device
MoreAudio ==
    \/ Len(heard) <= MaxSamples
    \/ chunk_size >= 2560 /\ Len(heard) <= Len(BigBlock)

\* an add_samples that puts the new bytes in the place of the backlog
AddSamples_Replaces ==
    /\ audio_pc = "idle"
    /\ MoreAudio
    /\ \E samples \in Blocks(chunk_size) :
         /\ buffer' = pcm_data(samples)
         /\ audio_last' = [call |-> "add_samples", samples |-> Len(samples),
                           backlog |-> Len(buffer)]
         /\ heard' = heard \o samples
    /\ chunks' = <<>>
    /\ audio_pc' = "drain"
    /\ UNCHANGED <<config, chunk_size, returned, sessVars, kbdVars, connVars>>

\* add_samples up to the while loop
AddSamples ==
    /\ audio_pc = "idle"
    /\ MoreAudio
    /\ \E samples \in Blocks(chunk_size) :
         /\ buffer' = buffer \o pcm_data(samples)
         /\ audio_last' = [call |-> "add_samples", samples |-> Len(samples),
                           backlog |-> Len(buffer)]
         /\ heard' = heard \o samples
    /\ chunks' = <<>>
    /\ audio_pc' = "drain"
    /\ UNCHANGED <<config, chunk_size, returned, sessVars, kbdVars, connVars>>

\* one turn of the while loop; with chunk_size = 0 the loop has no last turn
DrainChunk ==
    /\ audio_pc = "drain"
    /\ Len(buffer) >= chunk_size
    /\ chunk_size > 0 \/ Len(chunks) < MaxSpins
    /\ chunks' = Append(chunks, SubSeq(buffer, 1, chunk_size))
    /\ buffer' = SubSeq(buffer, chunk_size + 1, Len(buffer))
    /\ UNCHANGED <<config, chunk_size, audio_pc, audio_last, heard, returned,
                   sessVars, kbdVars, connVars>>

\* an add_samples that returns after any number of turns of the loop
AddSamplesReturn_Early ==
    /\ audio_pc = "drain"
    /\ audio_pc' = "idle"
    /\ returned' = returned \o Flatten(chunks)
    /\ UNCHANGED <<config, chunk_size, buffer, chunks, audio_last, heard,
                   sessVars, kbdVars, connVars>>

\* the while condition is false: add_samples returns chunks
AddSamplesReturn ==
    /\ audio_pc = "drain"
    /\ Len(buffer) < chunk_size
    /\ audio_pc' = "idle"
    /\ returned' = returned \o Flatten(chunks)
    /\ UNCHANGED <<config, chunk_size, buffer, chunks, audio_last, heard,
                   sessVars, kbdVars, connVars>>

AudioNext ==
    \/ AddSamples
    \/ DrainChunk
    \/ AddSamplesReturn
(***************************************************************************)
(* Inbound items: what ws_receiver.next() can yield.  A text frame is one  *)
(* of the four ServerMessage variants or a text serde_json cannot parse as *)
(* one; "Other" is a ping, pong or raw frame; "ReadErr" is Some(Err(e));   *)
(* "End" is None, the end of the stream.                                   *)
(***************************************************************************)
TextKinds == {"Connected", "Configuration", "TurnInfo", "Error", "Invalid"}

FrameKinds == TextKinds \cup {"Binary", "Close", "Other", "ReadErr", "End"}

\* the text frames by their "type": one of the variants of ServerMessage, a
\* name that is none of them ("UnknownType"), or no "type" at all, as in a
\* flat result ("NoType"); "Invalid" is a text that is not a message for
\* another reason
Variants == {"Connected", "TurnInfo", "Error", "Configuration"}

TypedTextKinds == TextKinds \cup {"UnknownType", "NoType"}

\* serde_json::from_str::<ServerMessage>(&text) of an enum tagged by "type"
\* with no catch-all variant: Ok of the variant named, else Err
from_str(k) == IF k \in Variants THEN k ELSE "Err"

\* the kinds on which receive_task returns Err
FatalKinds ==
    {"Error", "Binary", "ReadErr"}
        \cup {k \in TypedTextKinds : from_str(k) = "Err"}

\* an item without a result in it, and the item nothing was taken yet
Frame(k, n) ==
    [kind |-> k, id |-> n, event |-> "", turn_index |-> 0, transcript |-> <<>>]

NoFrame == Frame("None", 0)

\* a TurnInfo text frame with the fields p of its JSON
TurnInfo(n, p) ==
    [kind |-> "TurnInfo", id |-> n, event |-> p.event,
     turn_index |-> p.turn_index, transcript |-> p.transcript]

\* what the TurnInfo frames of a session say
TurnInfos ==
    { [event |-> "Update", turn_index |-> 0, transcript |-> <<"a">>],
      [event |-> "EndOfTurn", turn_index |-> 1, transcript |-> <<"a", "a">>] }

\* a mapping that loses the transcript of the message
to_result_no_transcript(m) ==
    [id |-> m.id, event |-> m.event, turn_index |-> m.turn_index,
     transcript |-> <<>>]

\* the TranscriptionResult built from a TurnInfo; id is the model's name of
\* the message it was built from
to_result(m) ==
    [id |-> m.id, event |-> m.event, turn_index |-> m.turn_index,
     transcript |-> m.transcript]

(***************************************************************************)
(* The state right after connect_and_transcribe returned Ok((audio_tx,     *)
(* handle)): both tasks spawned, nothing queued, nothing sent.             *)
(***************************************************************************)
SessionInit ==
    /\ audio_rx = <<>>
    /\ audio_tx_open = TRUE
    /\ produced = 0
    /\ send_pc = "recv"
    /\ send_res = "none"
    /\ audio_data = 0
    /\ sent = <<>>
    /\ inbox = <<>>
    /\ nframes = 0
    /\ recv_pc = "next"
    /\ recv_res = "none"
    /\ msg = NoFrame
    /\ delivered = <<>>
    /\ handle = "pending"

(***************************************************************************)
(* The audio producer (the caller holding audio_tx).                       *)
(***************************************************************************)
\* a push that gives the chunk up when the channel is full, as try_send does
ProducerPush_DropsWhenFull(limit) ==
    /\ audio_tx_open
    /\ produced < limit
    /\ \/ /\ send_pc # "done"
          /\ Len(audio_rx) < CHANNEL_CAPACITY
          /\ audio_rx' = Append(audio_rx, produced + 1)
       \/ /\ send_pc = "done" \/ Len(audio_rx) = CHANNEL_CAPACITY
          /\ audio_rx' = audio_rx
    /\ produced' = produced + 1
    /\ UNCHANGED <<kbdVars, audioVars, connVars, msg, audio_tx_open, send_pc,
                   send_res, audio_data, sent, inbox, nframes, recv_pc,
                   recv_res, delivered, handle>>

\* audio_tx.blocking_send(chunk): waits while the channel is full; fails, and
\* the chunk is dropped by the caller, once audio_rx was dropped with send_task
ProducerPush(limit) ==
    /\ audio_tx_open
    /\ produced < limit
    /\ \/ /\ send_pc # "done"
          /\ Len(audio_rx) < CHANNEL_CAPACITY
          /\ audio_rx' = Append(audio_rx, produced + 1)
       \/ /\ send_pc = "done"
          /\ audio_rx' = audio_rx
    /\ produced' = produced + 1
    /\ UNCHANGED <<kbdVars, audioVars, connVars, msg, audio_tx_open, send_pc,
                   send_res, audio_data, sent, inbox, nframes, recv_pc,
                   recv_res, delivered, handle>>

ProducerSend == ProducerPush(MaxChunks)

\* a producer that pushes enough chunks to fill the channel
ProducerBurst == ProducerPush(MaxBurst)

\* the last audio_tx is dropped
ProducerClose ==
    /\ audio_tx_open
    /\ audio_tx_open' = FALSE
    /\ UNCHANGED <<kbdVars, audioVars, connVars, msg, audio_rx, produced, send_pc, send_res, audio_data, sent,
                   inbox, nframes, recv_pc, recv_res, delivered, handle>>

(***************************************************************************)
(* send_task.                                                              *)
(***************************************************************************)
\* audio_rx.recv().await yields Some(audio_data)
SendTaskRecv ==
    /\ send_pc = "recv"
    /\ audio_rx # <<>>
    /\ audio_data' = Head(audio_rx)
    /\ audio_rx' = Tail(audio_rx)
    /\ send_pc' = "send_audio"
    /\ UNCHANGED <<kbdVars, audioVars, connVars, msg, audio_tx_open, produced, send_res, sent, inbox, nframes,
                   recv_pc, recv_res, delivered, handle>>

\* a send_task that notes a failed send and goes on with the next chunk
SendTaskSendAudio_GoesOn ==
    /\ send_pc = "send_audio"
    /\ \E ok \in BOOLEAN :
         IF ok
         THEN /\ sent' = Append(sent, Frame("Binary", audio_data))
              /\ send_pc' = "recv"
              /\ send_res' = send_res
         ELSE /\ sent' = sent
              /\ send_pc' = "recv"
              /\ send_res' = "err"
    /\ audio_data' = 0
    /\ UNCHANGED <<kbdVars, audioVars, connVars, msg, audio_rx, audio_tx_open, produced, inbox, nframes, recv_pc,
                   recv_res, delivered, handle>>

\* ws_sender.send(Message::Binary(audio_data)).await: Ok loops, Err returns it
SendTaskSendAudio ==
    /\ send_pc = "send_audio"
    /\ \E ok \in BOOLEAN :
         IF ok
         THEN /\ sent' = Append(sent, Frame("Binary", audio_data))
              /\ send_pc' = "recv"
              /\ send_res' = send_res
         ELSE /\ sent' = sent
              /\ send_pc' = "done"
              /\ send_res' = "err"
    /\ audio_data' = 0
    /\ UNCHANGED <<kbdVars, audioVars, connVars, msg, audio_rx, audio_tx_open, produced, inbox, nframes, recv_pc,
                   recv_res, delivered, handle>>

\* a recv that yields None whenever the queue is empty
SendTaskRecvNone_OnEmpty ==
    /\ send_pc = "recv"
    /\ audio_rx = <<>>
    /\ send_pc' = "send_close"
    /\ UNCHANGED <<kbdVars, audioVars, connVars, msg, audio_rx, audio_tx_open, produced, send_res, audio_data,
                   sent, inbox, nframes, recv_pc, recv_res, delivered, handle>>

\* audio_rx.recv().await yields None: every sender dropped and the queue empty
SendTaskRecvNone ==
    /\ send_pc = "recv"
    /\ audio_rx = <<>>
    /\ ~audio_tx_open
    /\ send_pc' = "send_close"
    /\ UNCHANGED <<kbdVars, audioVars, connVars, msg, audio_rx, audio_tx_open, produced, send_res, audio_data,
                   sent, inbox, nframes, recv_pc, recv_res, delivered, handle>>

\* a send_task that closes the connection after CloseStream
SendTaskSendClose_ThenClose ==
    /\ send_pc = "send_close"
    /\ \E ok \in BOOLEAN :
         IF ok
         THEN /\ sent' = sent \o <<Frame("CloseStream", 0), Frame("Close", 0)>>
              /\ send_res' = "ok"
         ELSE /\ sent' = sent
              /\ send_res' = "err"
    /\ send_pc' = "done"
    /\ UNCHANGED <<kbdVars, audioVars, connVars, msg, audio_rx, audio_tx_open, produced, audio_data, inbox,
                   nframes, recv_pc, recv_res, delivered, handle>>

\* ws_sender.send(Message::Text(close_msg)).await.map_err(..)?; Ok(())
SendTaskSendClose ==
    /\ send_pc = "send_close"
    /\ \E ok \in BOOLEAN :
         IF ok
         THEN /\ sent' = Append(sent, Frame("CloseStream", 0))
              /\ send_res' = "ok"
         ELSE /\ sent' = sent
              /\ send_res' = "err"
    /\ send_pc' = "done"
    /\ UNCHANGED <<kbdVars, audioVars, connVars, msg, audio_rx, audio_tx_open, produced, audio_data, inbox,
                   nframes, recv_pc, recv_res, delivered, handle>>

(***************************************************************************)
(* The server side of the socket.                                          *)
(***************************************************************************)
\* an inbound item becomes readable; nothing follows the end of the stream
ServerSendOf(kinds, results) ==
    /\ nframes < MaxFrames
    /\ \A i \in 1..Len(inbox) : inbox[i].kind # "End"
    /\ \E k \in kinds :
         IF k = "TurnInfo"
         THEN \E p \in results :
                  inbox' = Append(inbox, TurnInfo(nframes + 1, p))
         ELSE inbox' = Append(inbox, Frame(k, nframes + 1))
    /\ nframes' = nframes + 1
    /\ UNCHANGED <<kbdVars, audioVars, connVars, msg, audio_rx, audio_tx_open,
                   produced, send_pc, send_res, audio_data, sent, recv_pc,
                   recv_res, delivered, handle>>

ServerSend == ServerSendOf(FrameKinds, TurnInfos)

\* a server that sends one kind of item for each way receive_task goes on
\* after it (a result delivered, a message only logged, Err for a message,
\* Err for the transport, the break, the end of the stream), and whose TurnInfo
\* messages are all alike
BriefKinds == {"TurnInfo", "Configuration", "Error", "ReadErr", "Close", "End"}

BriefTurnInfos ==
    { [event |-> "EndOfTurn", turn_index |-> 0, transcript |-> <<"a">>] }

BriefServerSend == ServerSendOf(BriefKinds, BriefTurnInfos)

\* a server that sends text frames only, of every kind of "type"
TextServerSend == ServerSendOf(TypedTextKinds, TurnInfos)

(***************************************************************************)
(* receive_task: one turn of while let Some(msg) = ws_receiver.next().   *)
(* panics: whether the caller's on_transcription panics on this result.    *)
(***************************************************************************)
\* a receive_task that logs a fatal item and reads on
ReceiveTaskStep_ReadsOn ==
    /\ recv_pc = "next"
    /\ inbox # <<>>
    /\ msg' = Head(inbox)
    /\ LET m == Head(inbox) IN
       /\ inbox' = Tail(inbox)
       /\ CASE m.kind = "TurnInfo" ->
                 /\ delivered' = Append(delivered, to_result(m))
                 /\ UNCHANGED <<recv_pc, recv_res>>
            [] m.kind \in {"Connected", "Configuration", "Other"} ->
                 /\ UNCHANGED <<delivered, recv_pc, recv_res>>
            [] m.kind \in FatalKinds ->
                 /\ recv_res' = "err"
                 /\ UNCHANGED <<delivered, recv_pc>>
            [] m.kind \in {"Close", "End"} ->
                 /\ recv_pc' = "done"
                 /\ recv_res' = IF recv_res = "err" THEN "err" ELSE "ok"
                 /\ UNCHANGED delivered
    /\ UNCHANGED <<kbdVars, audioVars, connVars, audio_rx, audio_tx_open, produced, send_pc, send_res,
                   audio_data, sent, nframes, handle>>

\* a receive_task for which a close frame of the server is an error
ReceiveTaskStep_CloseIsError ==
    /\ recv_pc = "next"
    /\ inbox # <<>>
    /\ msg' = Head(inbox)
    /\ LET m == Head(inbox) IN
       /\ inbox' = Tail(inbox)
       /\ CASE m.kind = "TurnInfo" ->
                 \* on_transcription(result)
                 /\ delivered' = Append(delivered, to_result(m))
                 /\ \E panics \in BOOLEAN :
                      IF panics
                      THEN recv_pc' = "done" /\ recv_res' = "panic"
                      ELSE recv_pc' = "next" /\ recv_res' = recv_res
            [] m.kind \in {"Connected", "Configuration", "Other"} ->
                 \* info!(..) only, or _ => {}
                 /\ UNCHANGED <<delivered, recv_pc, recv_res>>
            [] m.kind \in FatalKinds \cup {"Close"} ->
                 \* return Err(..)
                 /\ recv_pc' = "done"
                 /\ recv_res' = "err"
                 /\ UNCHANGED delivered
            [] m.kind = "End" ->
                 /\ recv_pc' = "done"
                 /\ recv_res' = "ok"
                 /\ UNCHANGED delivered
    /\ UNCHANGED <<kbdVars, audioVars, connVars, audio_rx, audio_tx_open, produced, send_pc, send_res,
                   audio_data, sent, nframes, handle>>

\* a receive_task that ends its loop on a Configuration message
ReceiveTaskStep_ConfigurationEnds ==
    /\ recv_pc = "next"
    /\ inbox # <<>>
    /\ msg' = Head(inbox)
    /\ LET m == Head(inbox) IN
       /\ inbox' = Tail(inbox)
       /\ CASE m.kind = "TurnInfo" ->
                 \* on_transcription(result)
                 /\ delivered' = Append(delivered, to_result(m))
                 /\ \E panics \in BOOLEAN :
                      IF panics
                      THEN recv_pc' = "done" /\ recv_res' = "panic"
                      ELSE recv_pc' = "next" /\ recv_res' = recv_res
            [] m.kind \in {"Connected", "Other"} ->
                 \* info!(..) only, or _ => {}
                 /\ UNCHANGED <<delivered, recv_pc, recv_res>>
            [] m.kind \in FatalKinds ->
                 \* return Err(..)
                 /\ recv_pc' = "done"
                 /\ recv_res' = "err"
                 /\ UNCHANGED delivered
            [] m.kind \in {"Close", "End", "Configuration"} ->
                 \* break, or the loop's end on None; then Ok(())
                 /\ recv_pc' = "done"
                 /\ recv_res' = "ok"
                 /\ UNCHANGED delivered
    /\ UNCHANGED <<kbdVars, audioVars, connVars, audio_rx, audio_tx_open, produced, send_pc, send_res,
                   audio_data, sent, nframes, handle>>

\* a receive_task that skips a text whose "type" it does not know
ReceiveTaskStep_SkipsUnknown ==
    /\ recv_pc = "next"
    /\ inbox # <<>>
    /\ msg' = Head(inbox)
    /\ LET m == Head(inbox) IN
       /\ inbox' = Tail(inbox)
       /\ CASE m.kind = "TurnInfo" ->
                 \* on_transcription(result)
                 /\ delivered' = Append(delivered, to_result(m))
                 /\ \E panics \in BOOLEAN :
                      IF panics
                      THEN recv_pc' = "done" /\ recv_res' = "panic"
                      ELSE recv_pc' = "next" /\ recv_res' = recv_res
            [] m.kind \in {"Connected", "Configuration", "Other", "UnknownType", "NoType"} ->
                 \* info!(..) only, or _ => {}
                 /\ UNCHANGED <<delivered, recv_pc, recv_res>>
            [] m.kind \in FatalKinds \ {"UnknownType", "NoType"} ->
                 \* return Err(..)
                 /\ recv_pc' = "done"
                 /\ recv_res' = "err"
                 /\ UNCHANGED delivered
            [] m.kind \in {"Close", "End"} ->
                 \* break, or the loop's end on None; then Ok(())
                 /\ recv_pc' = "done"
                 /\ recv_res' = "ok"
                 /\ UNCHANGED delivered
    /\ UNCHANGED <<kbdVars, audioVars, connVars, audio_rx, audio_tx_open, produced, send_pc, send_res,
                   audio_data, sent, nframes, handle>>

ReceiveTaskStep ==
    /\ recv_pc = "next"
    /\ inbox # <<>>
    /\ msg' = Head(inbox)
    /\ LET m == Head(inbox) IN
       /\ inbox' = Tail(inbox)
       /\ CASE m.kind = "TurnInfo" ->
                 \* on_transcription(result)
                 /\ delivered' = Append(delivered, to_result(m))
                 /\ \E panics \in BOOLEAN :
                      IF panics
                      THEN recv_pc' = "done" /\ recv_res' = "panic"
                      ELSE recv_pc' = "next" /\ recv_res' = recv_res
            [] m.kind \in {"Connected", "Configuration", "Other"} ->
                 \* info!(..) only, or _ => {}
                 /\ UNCHANGED <<delivered, recv_pc, recv_res>>
            [] m.kind \in FatalKinds ->
                 \* return Err(..)
                 /\ recv_pc' = "done"
                 /\ recv_res' = "err"
                 /\ UNCHANGED delivered
            [] m.kind \in {"Close", "End"} ->
                 \* break, or the loop's end on None; then Ok(())
                 /\ recv_pc' = "done"
                 /\ recv_res' = "ok"
                 /\ UNCHANGED delivered
    /\ UNCHANGED <<kbdVars, audioVars, connVars, audio_rx, audio_tx_open, produced, send_pc, send_res,
                   audio_data, sent, nframes, handle>>

(***************************************************************************)
(* The outer task: let (_sr, _rr) = try_join!(send_task, receive_task)?;   *)
(* Ok(()).  The two futures are JoinHandles, so try_join! short-circuits   *)
(* only on a JoinError (a panicked sub-task); the sub-tasks' own Results   *)
(* come back inside the Ok pair as _sr and _rr, and are dropped.           *)
(***************************************************************************)
\* an outer task that takes the first sub-task to finish, as a select! would
OuterTaskJoin_FirstToFinish ==
    /\ handle = "pending"
    /\ \/ /\ recv_res = "panic"
          /\ handle' = "err"
       \/ /\ send_pc = "done" \/ recv_pc = "done"
          /\ recv_res # "panic"
          /\ handle' = "ok"
    /\ UNCHANGED <<kbdVars, audioVars, connVars, msg, audio_rx, audio_tx_open, produced, send_pc, send_res,
                   audio_data, sent, inbox, nframes, recv_pc, recv_res,
                   delivered>>

OuterTaskJoin ==
    /\ handle = "pending"
    /\ \/ /\ recv_res = "panic"
          /\ handle' = "err"
       \/ /\ send_pc = "done"
          /\ recv_pc = "done"
          /\ recv_res # "panic"
          /\ handle' = "ok"
    /\ UNCHANGED <<kbdVars, audioVars, connVars, msg, audio_rx, audio_tx_open, produced, send_pc, send_res,
                   audio_data, sent, inbox, nframes, recv_pc, recv_res,
                   delivered>>

\* the producer and send_task alone: the server is silent
QueueNext ==
    \/ ProducerBurst
    \/ ProducerClose
    \/ SendTaskRecv
    \/ SendTaskSendAudio
    \/ SendTaskRecvNone
    \/ SendTaskSendClose

(***************************************************************************)
(* The application: test_stt gives the session a callback that applies     *)
(* every result to the keyboard, under the keyboard's lock.                *)
(***************************************************************************)
Events == {"Update", "EagerEndOfTurn", "EndOfTurn"}

AppTranscripts ==
    SeqsUpTo({"a"}, MaxLen) \cup { <<"a", " ", "e", "n", "t", "e", "r">> }

\* what the TurnInfo frames of the application's session say
AppTurnInfos ==
    { [event |-> e, turn_index |-> 0, transcript |-> t] :
        e \in Events, t \in AppTranscripts }

\* a closure that takes every event ending in "EndOfTurn" for the end
on_transcription_any_end(result) ==
    /\ IF result.event \in {"EndOfTurn", "EagerEndOfTurn"} THEN Finalize
       ELSE Update(result.transcript)
    /\ UNCHANGED <<recv_pc, recv_res>>

\* the closure of test_stt: the match on result.event; an Err of the keyboard
\* goes to error!(..) and the closure returns
on_transcription(result) ==
    /\ IF result.event = "EndOfTurn" THEN Finalize
       ELSE Update(result.transcript)
    /\ UNCHANGED <<recv_pc, recv_res>>

\* the server of the application's session
AppServerSend == ServerSendOf(FrameKinds, AppTurnInfos)

\* receive_task reads a TurnInfo and calls the closure with its result
AppReceiveTurnInfo ==
    /\ recv_pc = "next"
    /\ inbox # <<>>
    /\ Head(inbox).kind = "TurnInfo"
    /\ inbox' = Tail(inbox)
    /\ msg' = Head(inbox)
    /\ delivered' = Append(delivered, to_result(Head(inbox)))
    /\ on_transcription(to_result(Head(inbox)))
    /\ UNCHANGED <<audioVars, connVars, audio_rx, audio_tx_open, produced, send_pc,
                   send_res, audio_data, sent, nframes, handle, kb_lock>>

\* receive_task reads any other item
AppReceiveOther ==
    /\ inbox # <<>>
    /\ Head(inbox).kind # "TurnInfo"
    /\ ReceiveTaskStep

\* the session of a silent microphone: no chunk is pushed before audio_tx is
\* dropped
AppNext ==
    \/ ProducerClose
    \/ SendTaskRecvNone
    \/ SendTaskSendClose
    \/ AppServerSend
    \/ AppReceiveTurnInfo
    \/ AppReceiveOther
    \/ OuterTaskJoin

\* a server that sends results and its close frame only: every event, with a
\* short transcript or one that ends in the enter command
HandlerKinds == {"TurnInfo", "Close"}

HandlerTurnInfos ==
    { [event |-> e, turn_index |-> 0, transcript |-> t] :
        e \in Events,
        t \in { <<"a", "a">>, <<"a", " ", "e", "n", "t", "e", "r">> } }

HandlerServerSend == ServerSendOf(HandlerKinds, HandlerTurnInfos)

\* the session of a silent microphone with that server
HandlerNext ==
    \/ ProducerClose
    \/ SendTaskRecvNone
    \/ SendTaskSendClose
    \/ HandlerServerSend
    \/ AppReceiveTurnInfo
    \/ AppReceiveOther
    \/ OuterTaskJoin

(***************************************************************************)
(* The same closure in two steps: receive_task enters it and takes the     *)
(* keyboard's Mutex (keyboard_clone.lock().unwrap()); then, holding the    *)
(* guard, it makes the call on the keyboard and leaves, dropping the guard. *)
(* Other tasks may run between the two.                                    *)
(***************************************************************************)
\* a receive_task that gives the result to a run of its own and reads on
CallbackEnter_Detached ==
    /\ recv_pc = "next"
    /\ inbox # <<>>
    /\ Head(inbox).kind = "TurnInfo"
    /\ inbox' = Tail(inbox)
    /\ msg' = Head(inbox)
    /\ delivered' = Append(delivered, to_result(Head(inbox)))
    /\ kb_lock' = Append(kb_lock, Head(inbox).id)
    /\ recv_pc' = "next"
    /\ UNCHANGED <<audioVars, connVars, audio_rx, audio_tx_open, produced,
                   send_pc, send_res, audio_data, sent, nframes, handle,
                   recv_res, hardware, current_text, typed_chars,
                   backspace_count, enter_pressed, ops, attempted, last, calls,
                   committed, net, own, stolen, faithful, keys_down,
                   fail_after>>

\* on_transcription(result) is called and locks the keyboard
CallbackEnter ==
    /\ recv_pc = "next"
    /\ inbox # <<>>
    /\ Head(inbox).kind = "TurnInfo"
    /\ inbox' = Tail(inbox)
    /\ msg' = Head(inbox)
    /\ delivered' = Append(delivered, to_result(Head(inbox)))
    /\ kb_lock' = Append(kb_lock, Head(inbox).id)
    /\ recv_pc' = "callback"
    /\ UNCHANGED <<audioVars, connVars, audio_rx, audio_tx_open, produced,
                   send_pc, send_res, audio_data, sent, nframes, handle,
                   recv_res, hardware, current_text, typed_chars,
                   backspace_count, enter_pressed, ops, attempted, last, calls,
                   committed, net, own, stolen, faithful, keys_down,
                   fail_after>>

\* the match on result.event under the guard; the closure returns
CallbackRun ==
    /\ recv_pc = "callback"
    /\ kb_lock # <<>>
    /\ IF msg.event = "EndOfTurn" THEN Finalize ELSE Update(msg.transcript)
    /\ kb_lock' = Tail(kb_lock)
    /\ recv_pc' = "next"
    /\ UNCHANGED <<audioVars, connVars, audio_rx, audio_tx_open, produced,
                   send_pc, send_res, audio_data, sent, nframes, handle,
                   recv_res, inbox, msg, delivered>>

LockNext ==
    \/ ProducerClose
    \/ SendTaskRecvNone
    \/ SendTaskSendClose
    \/ HandlerServerSend
    \/ CallbackEnter
    \/ CallbackRun
    \/ AppReceiveOther
    \/ OuterTaskJoin
SessionNext ==
    \/ ProducerSend
    \/ ProducerClose
    \/ SendTaskRecv
    \/ SendTaskSendAudio
    \/ SendTaskRecvNone
    \/ SendTaskSendClose
    \/ ServerSend
    \/ ReceiveTaskStep
    \/ OuterTaskJoin

\* the session with the brief server
BriefSessionNext ==
    \/ ProducerSend
    \/ ProducerClose
    \/ SendTaskRecv
    \/ SendTaskSendAudio
    \/ SendTaskRecvNone
    \/ SendTaskSendClose
    \/ BriefServerSend
    \/ ReceiveTaskStep
    \/ OuterTaskJoin

\* the session of a silent microphone with the server of text frames
TextSessionNext ==
    \/ ProducerClose
    \/ SendTaskRecvNone
    \/ SendTaskSendClose
    \/ TextServerSend
    \/ ReceiveTaskStep
    \/ OuterTaskJoin

(***************************************************************************)
(* Specifications.                                                         *)
(***************************************************************************)
\* no keyboard call is made in the runs of the session
KeyboardIdle == KeyboardInit /\ hardware = "Mock"

\* an AudioBuffer that is given no samples
AudioIdle == AudioInit /\ config = <<16000, 80>>

SessionSpecInit == SessionInit /\ KeyboardIdle /\ AudioIdle /\ ConnActive

\* one session, from the return of connect_and_transcribe on
SpecSession == SessionSpecInit /\ [][SessionNext]_vars

\* the same under tokio's scheduling: a task that can take a step takes one.
\* Nothing makes the producer push or drop audio_tx, or the server send.
FairSession ==
    /\ SessionSpecInit
    /\ [][BriefSessionNext]_vars
    /\ WF_vars(SendTaskRecv)
    /\ WF_vars(SendTaskSendAudio)
    /\ WF_vars(SendTaskRecvNone)
    /\ WF_vars(SendTaskSendClose)
    /\ WF_vars(ReceiveTaskStep)
    /\ WF_vars(OuterTaskJoin)

\* a device whose writes never fail
KeyboardSpecInit ==
    /\ KeyboardInit /\ fail_after = Never
    /\ SessionInit /\ AudioIdle /\ ConnActive

\* one VirtualKeyboard, every hardware call returning Ok
SpecKeyboard == KeyboardSpecInit /\ [][KeyboardNext]_vars

\* one VirtualKeyboard whose device may stop taking events
KeyboardFailInit == KeyboardInit /\ SessionInit /\ AudioIdle /\ ConnActive

SpecKeyboardFail == KeyboardFailInit /\ [][KeyboardNext]_vars

\* test_stt: one session whose results are applied to one keyboard
SpecApp == KeyboardFailInit /\ [][AppNext]_vars

\* test_stt with a server that sends results only
SpecHandler == KeyboardFailInit /\ [][HandlerNext]_vars

\* the same with the closure entered and run in two steps
SpecLock == KeyboardFailInit /\ [][LockNext]_vars

\* the audio queue of one session, with chunks enough to fill it
SpecQueue == SessionSpecInit /\ [][QueueNext]_vars

\* one session whose inbound items are text frames
SpecText == SessionSpecInit /\ [][TextSessionNext]_vars

\* a call of connect_and_transcribe and the session it starts: the tasks run
\* only once the connection is there
ConnectSpecInit == SessionInit /\ KeyboardIdle /\ AudioIdle /\ ConnInit

ConnectNext ==
    \/ ConnNext
    \/ conn_pc = "active" /\ BriefSessionNext

SpecConnect == ConnectSpecInit /\ [][ConnectNext]_vars

\* one AudioBuffer and the add_samples calls made on it
AudioSpecInit == AudioInit /\ SessionInit /\ KeyboardIdle /\ ConnActive

SpecAudio == AudioSpecInit /\ [][AudioNext]_vars

\* the same, with a call of add_samples that runs on: the loop takes its next
\* turn while its condition holds and the call returns once it does not
FairAudio ==
    /\ AudioSpecInit
    /\ [][AudioNext]_vars
    /\ WF_vars(DrainChunk)
    /\ WF_vars(AddSamplesReturn)

\* one turn on a device whose writes never fail: its text, then its end
SpecEnter == KeyboardSpecInit /\ [][EnterNext]_vars

\* a keyboard that is given digits to type
SpecDigits == KeyboardFailInit /\ [][DigitsNext]_vars

(***************************************************************************)
(* What the claims speak of.                                               *)
(***************************************************************************)
\* a sub-task has returned Err
SubTaskFailed == send_res = "err" \/ recv_res = "err"

Min(a, b) == IF a <= b THEN a ELSE b

\* the number of leading chars two strings share
CommonPrefixLength(a, b) ==
    CHOOSE k \in 0..Min(Len(a), Len(b)) :
        /\ SubSeq(a, 1, k) = SubSeq(b, 1, k)
        /\ k = Min(Len(a), Len(b)) \/ a[k + 1] # b[k + 1]

IsPrefix(p, s) == Len(p) <= Len(s) /\ \A i \in 1..Len(p) : p[i] = s[i]

NumBackspaces(calls_) ==
    Cardinality({i \in 1..Len(calls_) : calls_[i].op = "press_backspace"})

NumEnters(calls_) ==
    Cardinality({i \in 1..Len(calls_) : calls_[i].op = "press_enter"})

\* the chars given to type_text, in order
RECURSIVE TypedText(_)
TypedText(calls_) ==
    IF calls_ = <<>> THEN <<>>
    ELSE Head(calls_).text \o TypedText(Tail(calls_))

\* the enter command, read off the end of the text: the run of punctuation
\* and whitespace that ends it, the word before that run, the whitespace
\* before the word
ToLower(c) ==
    IF \E i \in 1..26 : UpperLetters[i] = c
    THEN LowerLetters[CHOOSE i \in 1..26 : UpperLetters[i] = c] ELSE c

IsTrailer(c) == is_punct(c) \/ is_whitespace(c)

TrailerLen(s) ==
    CHOOSE k \in 0..Len(s) :
        /\ \A i \in (Len(s) - k + 1)..Len(s) : IsTrailer(s[i])
        /\ k = Len(s) \/ ~IsTrailer(s[Len(s) - k])

WordEnd(s) == Len(s) - TrailerLen(s)

EndsWithEnterCommand(s) ==
    LET e == WordEnd(s)
    IN  /\ e >= 5
        /\ \A k \in 1..5 : ToLower(s[e - 5 + k]) = EnterWord[k]
        /\ e = 5 \/ ~is_word_char(s[e - 5])
        /\ e = Len(s) \/ ~is_word_char(s[e + 1])

LeadLen(s) ==
    LET w == WordEnd(s) - 5
    IN  CHOOSE k \in 0..w :
            /\ \A i \in (w - k + 1)..w : is_whitespace(s[i])
            /\ k = w \/ ~is_whitespace(s[w - k])

EnterSuffixLen(s) == LeadLen(s) + 5 + TrailerLen(s)

\* the text with the letters of its trailing word in lower case
LowerEnter(s) ==
    [i \in 1..Len(s) |->
        IF i \in (WordEnd(s) - 4)..WordEnd(s) THEN ToLower(s[i]) ELSE s[i]]

\* "enter" and then chars of punctuation and whitespace only, after a lead
IsEnterThenTrailer(s) ==
    \E l \in Leads, t \in Trailers : s = l \o EnterWord \o t

\* the CloseStream frames that send_task has written
CloseStreamCount ==
    Cardinality({i \in 1..Len(sent) : sent[i].kind = "CloseStream"})

\* the KeyboardHardware calls the last call makes when none of them fails
Planned ==
    IF last.call = "update" THEN update_transcript(last.before, last.arg).ops
    ELSE IF last.call = "finalize" THEN finalize_transcript(last.before).ops
    ELSE <<>>

\* the text less the enter command that ends it
LessEnter(s) ==
    IF EndsWithEnterCommand(s)
    THEN SubSeq(s, 1, Len(s) - EnterSuffixLen(s)) ELSE s

\* the chunks send_task has taken from the queue
Taken ==
    Cardinality({i \in 1..Len(sent) : sent[i].kind = "Binary"})
      + (IF audio_data # 0 THEN 1 ELSE 0)

FixThisCenters ==
    <<"f", "i", "x", " ", "t", "h", "i", "s", " ", "c", "e", "n", "t", "e",
      "r", "s">>

(***************************************************************************)
(* The claims.                                                             *)
(***************************************************************************)

\* C1: when the sender task or the receiver task has ended with an error, the
\* completion handle, once resolved, holds an error and never success.
C1_SubTaskErrorIsResult ==
    (handle # "pending" /\ SubTaskFailed) => handle = "err"

\* C2: whenever the completion handle has resolved with success, the sender
\* task and the receiver task have both finished.
C2_SuccessOnlyAfterBoth ==
    handle = "ok" => (send_pc = "done" /\ recv_pc = "done")

C2_Witness ==
    /\ handle = "ok"
    /\ send_res = "ok"
    /\ recv_res = "ok"
    /\ Len(sent) >= 2

\* C3: once the receiver task has ended on a fatal item (an Error message, an
\* unparseable text, a binary frame, a read error), no step invokes the
\* result callback again.
C3_NoCallbackAfterFatal ==
    [][recv_res = "err" => delivered' = delivered]_vars

C3_Witness ==
    /\ recv_res = "err"
    /\ delivered # <<>>
    /\ \E i \in 1..Len(inbox) : inbox[i].kind = "TurnInfo"

\* C4: after a sub-task has ended with an error, the completion handle
\* eventually resolves with an error, whatever the producer does.
C4_FatalLeadsToError ==
    SubTaskFailed ~> (handle = "err")

\* C5: while the hardware has typed every char as given, current_text is the
\* chars typed less the chars backspaced since the last reset, and the screen
\* is the text committed at that reset followed by current_text.
C5_TrackedTextIsScreen ==
    faithful => (current_text = net /\ typed_chars = committed \o current_text)

C5_Witness ==
    /\ faithful
    /\ hardware = "Real"
    /\ committed # <<>>
    /\ current_text # <<>>
    /\ backspace_count > 0

\* C6: with either hardware, no backspace is issued when no char that the
\* hardware typed since the last reset is left on screen.
C6_NeverDeletesForeign ==
    stolen = 0

\* C7: update_transcript(B) from current_text A issues len(A) - cpl(A, B)
\* backspaces, types len(B) - cpl(A, B) chars and leaves current_text = B.
C7_UpdateCounts ==
    last.call = "update" =>
        LET cpl == CommonPrefixLength(last.before, last.arg)
        IN  /\ NumBackspaces(ops) = Len(last.before) - cpl
            /\ Len(TypedText(ops)) = Len(last.arg) - cpl
            /\ current_text = last.arg

C7_Witness ==
    /\ last.call = "update"
    /\ "U+00E9" \in RangeOf(last.before)
    /\ CommonPrefixLength(last.before, last.arg) > 0
    /\ CommonPrefixLength(last.before, last.arg) < Len(last.before)
    /\ CommonPrefixLength(last.before, last.arg) < Len(last.arg)

\* C8: an update_transcript whose transcript has current_text as a prefix
\* issues no backspace and types the appended suffix only.
C8_ExtensionNeverBackspaces ==
    (last.call = "update" /\ IsPrefix(last.before, last.arg)) =>
        /\ NumBackspaces(ops) = 0
        /\ TypedText(ops)
             = SubSeq(last.arg, Len(last.before) + 1, Len(last.arg))

C8_Witness ==
    /\ last.call = "update"
    /\ calls >= 2
    /\ last.before # <<>>
    /\ IsPrefix(last.before, last.arg)
    /\ Len(last.arg) > Len(last.before)
    /\ backspace_count = 0

\* C9: update_transcript("") from current_text T issues len(T) backspaces and
\* nothing else, none when T is empty, and leaves current_text empty.
C9_EmptyUpdateClears ==
    (last.call = "update" /\ last.arg = <<>>) =>
        /\ ops = Repeat(Backspace, Len(last.before))
        /\ current_text = <<>>

C9_Witness ==
    /\ last.call = "update"
    /\ last.arg = <<>>
    /\ "U+00E9" \in RangeOf(last.before)
    /\ Len(last.before) >= 2
    /\ NumBackspaces(ops) = Len(last.before)

\* C10: finalize_transcript on a text that ends with the enter command issues
\* one backspace per char of the matched suffix, then one commit, and deletes
\* nothing before the suffix: 6 backspaces for "draft a memo enter", and
\* "fix this centers" is left of "fix this centers enter!! ".
C10_EnterCommandSuffixOnly ==
    (last.call = "finalize" /\ EndsWithEnterCommand(last.before)) =>
        LET n == EnterSuffixLen(last.before)
        IN  /\ ops = Repeat(Backspace, n) \o <<Enter>>
            /\ faithful =>
                 typed_chars
                   = last.base \o SubSeq(last.before, 1, Len(last.before) - n)
            /\ last.before = DraftAMemoEnter => NumBackspaces(ops) = 6
            /\ (last.before = FixThisCentersEnter /\ faithful) =>
                 typed_chars = last.base \o FixThisCenters

C10_Witness ==
    /\ last.call = "finalize"
    /\ last.before = FixThisCentersEnter
    /\ NumBackspaces(ops) = 9
    /\ NumEnters(ops) = 1

\* C11: when current_text does not end with the enter command,
\* finalize_transcript makes no key operation (no backspace, no commit, no
\* typed char) and the text on screen is what it was: nothing for "enter the
\* room".
C11_NoCommandNoKeys ==
    (last.call = "finalize" /\ ~EndsWithEnterCommand(last.before)) =>
        /\ ops = <<>>
        /\ attempted = 0
        /\ typed_chars = last.screen

C11_Witness ==
    /\ last.call = "finalize"
    /\ last.before = EnterTheRoom
    /\ typed_chars = EnterTheRoom
    /\ ops = <<>>
    /\ ~enter_pressed

\* C12: finalize_transcript commits only when "enter" is a whole word and the
\* last word of current_text; "entering", "entered", "center", "enterprise",
\* "enter the room" and "hello enter now" give no commit.
C12_CommitOnlyLastWholeWord ==
    last.call = "finalize" =>
        /\ NumEnters(ops) > 0 => EndsWithEnterCommand(last.before)
        /\ last.before \in LongerWords \cup {EnterTheRoom, HelloEnterNow} =>
               NumEnters(ops) = 0 /\ ~enter_pressed

C12_Witness ==
    /\ last.call = "finalize"
    /\ last.before = HelloEnterNow
    /\ NumEnters(ops) = 0
    /\ typed_chars = HelloEnterNow

\* C13: for every way of writing the trailing whole word "enter" in upper and
\* lower case, finalize_transcript commits once and issues as many backspaces
\* as for the lower-case form.
C13_CaseInsensitive ==
    (last.call = "finalize" /\ EndsWithEnterCommand(last.before)) =>
        LET lower == finalize_transcript(LowerEnter(last.before)).ops
        IN  /\ NumEnters(ops) = 1
            /\ NumEnters(lower) = 1
            /\ NumBackspaces(ops) = NumBackspaces(lower)

C13_Witness ==
    /\ last.call = "finalize"
    /\ last.before = <<"a", " ", "e", "N", "t", "E", "r">>
    /\ NumBackspaces(ops) = 6
    /\ NumEnters(ops) = 1

\* C14: whatever run of ASCII punctuation, spaces, tabs and newlines follows
\* a trailing whole word "enter", finalize_transcript commits exactly once.
C14_AnyTrailerCommits ==
    (last.call = "finalize" /\ IsEnterThenTrailer(last.before)) =>
        NumEnters(ops) = 1

\* C15: after a finalize_transcript that returned Ok, current_text is empty,
\* matched or not; a finalize_transcript right after it makes no key
\* operation.
C15_FinalizeClears ==
    (last.call = "finalize" /\ last.result = "Ok") =>
        /\ current_text = <<>>
        /\ finalize_transcript(current_text).ops = <<>>
        /\ last.before = <<>> => ops = <<>> /\ attempted = 0

C15_Witness ==
    /\ last.call = "finalize"
    /\ last.before = <<>>
    /\ calls = 3
    /\ committed # <<>>
    /\ ops = <<>>

\* C16: every chunk that add_samples returns has exactly chunk_size bytes,
\* and when the call returns the backlog is shorter than chunk_size.
C16_WholeChunksOnly ==
    (audio_pc = "idle" /\ audio_last.call = "add_samples") =>
        /\ \A i \in 1..Len(chunks) : Len(chunks[i]) = chunk_size
        /\ Len(buffer) < chunk_size
        /\ Len(chunks) * chunk_size + Len(buffer)
             = audio_last.backlog + 2 * audio_last.samples

C16_Witness ==
    /\ audio_pc = "idle"
    /\ audio_last.call = "add_samples"
    /\ audio_last.backlog > 0
    /\ chunk_size = 6
    /\ Len(chunks) = 1
    /\ Len(buffer) = 2

\* C17: a buffer of 16000 Hz and 80 ms has chunk_size 2560 and, given 3200
\* samples on an empty backlog, returns two chunks of 2560 bytes and keeps
\* 1280 bytes.
C17_TwoChunksOf3200Samples ==
    config = <<16000, 80>> =>
        /\ chunk_size = 2560
        /\ (/\ audio_pc = "idle"
            /\ audio_last = [call |-> "add_samples", samples |-> 3200,
                             backlog |-> 0]) =>
               /\ Len(chunks) = 2
               /\ \A i \in 1..Len(chunks) : Len(chunks[i]) = 2560
               /\ Len(buffer) = 1280

C17_Witness ==
    /\ config = <<16000, 80>>
    /\ audio_pc = "idle"
    /\ audio_last = [call |-> "add_samples", samples |-> 3200, backlog |-> 0]
    /\ Len(chunks) = 2
    /\ Len(buffer) = 1280

\* C17 as the specification words it: one chunk of 2560 bytes is returned
\* and 640 bytes are kept.
C17_OneChunkOf3200Samples ==
    (/\ config = <<16000, 80>>
     /\ audio_pc = "idle"
     /\ audio_last = [call |-> "add_samples", samples |-> 3200,
                      backlog |-> 0]) =>
        /\ Len(chunks) = 1
        /\ Len(chunks[1]) = 2560
        /\ Len(buffer) = 640

\* at most one CloseStream; it is the last frame written, the queue was closed
\* and is empty, and every chunk pushed was written before it, in order
CloseStreamIsLast ==
    /\ CloseStreamCount <= 1
    /\ CloseStreamCount = 1 =>
          /\ sent[Len(sent)].kind = "CloseStream"
          /\ ~audio_tx_open
          /\ audio_rx = <<>>
          /\ audio_data = 0
          /\ Len(sent) = produced + 1
          /\ \A i \in 1..produced : sent[i] = Frame("Binary", i)

\* C18: send_task writes CloseStream at most once, only after the queue was
\* closed and every queued chunk was written, and no binary frame after it;
\* once the queue is closed it writes CloseStream unless a send fails.
C18_CloseStreamAfterAudio ==
    /\ []CloseStreamIsLast
    /\ (~audio_tx_open) ~> (CloseStreamCount = 1 \/ send_res = "err")

C18_Witness ==
    /\ sent = <<Frame("Binary", 1), Frame("Binary", 2), Frame("CloseStream", 0)>>
    /\ send_res = "ok"

\* C18 as the specification words it: CloseStream is written exactly once in
\* every session.
C18_CloseStreamInEverySession ==
    /\ []CloseStreamIsLast
    /\ <>(CloseStreamCount = 1)

\* C19: a call of update_transcript or finalize_transcript in which a key
\* operation fails makes no KeyboardHardware call after the failed one and
\* returns Err; a call that returns Ok has made every one of its calls.
C19_FailureAborts ==
    /\ last.result = "Err" =>
          /\ fail_after = 0
          /\ attempted >= 1
          /\ attempted <= Len(Planned)
          /\ ops = SubSeq(Planned, 1, attempted)
    /\ last.result = "Ok" => (attempted = Len(Planned) /\ ops = Planned)

C19_Witness ==
    /\ last.call = "update"
    /\ last.result = "Err"
    /\ attempted = 2
    /\ Len(Planned) = 3
    /\ NumBackspaces(ops) = 2

\* C20: once a key operation has failed while a result was handled, no later
\* result is applied to the keyboard and the session does not end with
\* success.
C20_KeyFailureIsFatal ==
    [][last.result = "Err" => (calls' = calls /\ handle' # "ok")]_vars

\* C21: when an end-of-turn result that follows an interim result has been
\* handled and no key operation has failed, the screen holds, after what was
\* there when the turn began, the transcript of the end-of-turn result less
\* its enter command.
C21_ScreenIsFinalTranscript ==
    (/\ Len(delivered) >= 2
     /\ delivered[Len(delivered)].event = "EndOfTurn"
     /\ delivered[Len(delivered) - 1].event # "EndOfTurn"
     /\ last.call = "finalize"
     /\ fail_after = Never
     /\ faithful) =>
        typed_chars
          = last.base \o LessEnter(delivered[Len(delivered)].transcript)

\* C22: the queue never holds more than 32 chunks; while it holds 32 no push
\* completes; and as long as send_task lives every chunk pushed is in the
\* queue, in order, or was taken by send_task.
C22_QueueBounded ==
    /\ [](Len(audio_rx) <= 32)
    /\ [][(Len(audio_rx) = 32 /\ send_pc # "done") => produced' = produced]_vars
    /\ [](send_pc # "done" =>
            /\ produced = Taken + Len(audio_rx)
            /\ \A i \in 1..Len(audio_rx) : audio_rx[i] = Taken + i)

C22_Witness ==
    /\ Len(audio_rx) = 32
    /\ produced = 34
    /\ send_pc = "send_audio"

\* the queue is closed, no send has failed, and the server's close frame
\* waits to be read with no fatal item before it
WindingDown ==
    /\ ~audio_tx_open
    /\ send_res # "err"
    /\ recv_pc = "next"
    /\ \E i \in 1..Len(inbox) :
         /\ inbox[i].kind = "Close"
         /\ \A j \in 1..(i - 1) : inbox[j].kind \notin FatalKinds

\* C23: from there on, unless a send fails or the callback panics, send_task
\* sends CloseStream, receive_task ends with Ok on the close frame and the
\* handle resolves with success.
C23_GracefulWindDown ==
    WindingDown ~>
        \/ /\ CloseStreamCount = 1
           /\ send_res = "ok"
           /\ msg.kind = "Close"
           /\ recv_res = "ok"
           /\ handle = "ok"
        \/ send_res = "err"
        \/ recv_res = "panic"

C23_Witness ==
    /\ handle = "ok"
    /\ msg.kind = "Close"
    /\ recv_res = "ok"
    /\ send_res = "ok"
    /\ Len(delivered) = 2
    /\ sent = <<Frame("Binary", 1), Frame("CloseStream", 0)>>

\* a step of receive_task that reads the TurnInfo frame at the head
ReadsTurnInfo ==
    /\ recv_pc = "next"
    /\ inbox # <<>>
    /\ inbox' = Tail(inbox)
    /\ Head(inbox).kind = "TurnInfo"

\* C24: the step that reads a TurnInfo frame appends one result with the
\* frame's event, turn_index and transcript to the callback's calls, no other
\* step changes these calls, and whenever the frame read last is a TurnInfo
\* its result is the last call made, so the callback ran before the next read.
C24_TurnInfoDeliveredOnceInOrder ==
    /\ [][IF ReadsTurnInfo
          THEN /\ Len(delivered') = Len(delivered) + 1
               /\ SubSeq(delivered', 1, Len(delivered)) = delivered
               /\ LET r == delivered'[Len(delivered')]
                      m == Head(inbox) IN
                    /\ r.id = m.id
                    /\ r.event = m.event
                    /\ r.turn_index = m.turn_index
                    /\ r.transcript = m.transcript
          ELSE delivered' = delivered]_vars
    /\ [](msg.kind = "TurnInfo" =>
            /\ delivered # <<>>
            /\ delivered[Len(delivered)].id = msg.id)
    /\ [](\A i, j \in 1..Len(delivered) :
            i < j => delivered[i].id < delivered[j].id)

C24_Witness ==
    /\ Len(delivered) = 2
    /\ delivered[1].event = "EndOfTurn" /\ delivered[1].id = 1
    /\ delivered[1].transcript = <<"a", "a">>
    /\ delivered[2].event = "Update" /\ delivered[2].id = 3
    /\ delivered[2].transcript = <<"a">>
    /\ msg.id = 3
    /\ recv_pc = "next"

\* the queue and the tasks were not made, or have done nothing
NoSession ==
    /\ produced = 0 /\ audio_rx = <<>> /\ audio_tx_open
    /\ sent = <<>> /\ send_pc = "recv" /\ send_res = "none"
    /\ msg = NoFrame /\ delivered = <<>> /\ recv_res = "none"
    /\ handle = "pending"

\* C25: with a secret in the environment that cannot be made into a header
\* value, the call makes no connection attempt, never gets past the header
\* other than by failing, and no queue or task comes to be.
C25_BadSecretFailsBeforeConnect ==
    env_key \in {"invalid", "not_unicode"} =>
        /\ attempts = 0
        /\ conn_pc \in {"request", "header", "failed"}
        /\ NoSession

\* C26: a call makes at most one connection attempt; a call that failed stays
\* failed, attempts nothing more and has no session; and a sub-task that
\* failed stays ended with its error and sends, takes, reads and delivers
\* nothing more, while no failure is followed by another attempt.
C26_NoRetry ==
    /\ [](attempts <= 1)
    /\ [][(conn_pc = "failed" =>
             (/\ conn_pc' = "failed"
              /\ attempts' = attempts
              /\ NoSession'))]_vars
    /\ [][(send_res = "err" =>
             (/\ send_pc = "done"
              /\ UNCHANGED <<send_res, send_pc, sent, audio_data, conn_pc, attempts>>
              /\ Len(audio_rx') >= Len(audio_rx)))]_vars
    /\ [][(recv_res \in {"err", "panic"} =>
             (/\ recv_pc = "done"
              /\ UNCHANGED <<recv_res, recv_pc, msg, delivered, conn_pc, attempts>>
              /\ Len(inbox') >= Len(inbox)))]_vars

C26_Witness ==
    /\ attempts = 1
    /\ conn_pc = "active"
    /\ send_res = "err"
    /\ recv_res = "err"
    /\ Len(inbox) = 2
    /\ audio_rx # <<>>

\* the texts one backspace or one appended char away from a text of S, and S
EditStep(S, chars) ==
    S \cup {SubSeq(t, 1, Len(t) - 1) : t \in {u \in S : u # <<>>}}
      \cup {Append(t, ch) : t \in S, ch \in chars}

\* the texts that at most n backspaces and appended chars make of text a
RECURSIVE WithinEdits(_, _, _)
WithinEdits(a, n, chars) ==
    IF n = 0 THEN {a} ELSE EditStep(WithinEdits(a, n - 1, chars), chars)

\* the key operations of the last call: backspaces and typed chars
KeyCost == NumBackspaces(ops) + Len(TypedText(ops))

\* C27: the operations of update_transcript(B) from current_text A are the
\* backspaces of A's chars after the common prefix and then the typing of B's
\* chars after it, so no char of the prefix is deleted or typed again; their
\* number is at most that of erasing down to any shorter shared prefix and
\* typing the rest; and no shorter run of backspaces and appended chars makes
\* B of A (searched through for the texts over Alphabet).
C27_UpdateIsMinimal ==
    last.call = "update" =>
        LET A == last.before
            B == last.arg
            cpl == CommonPrefixLength(A, B)
        IN  /\ Len(ops) >= Len(A) - cpl
            /\ \A i \in 1..Len(ops) :
                 (ops[i].op = "press_backspace") <=> (i <= Len(A) - cpl)
            /\ TypedText(ops) = SubSeq(B, cpl + 1, Len(B))
            /\ \A j \in 0..cpl : KeyCost <= (Len(A) - j) + (Len(B) - j)
            /\ (KeyCost > 0 /\ RangeOf(A) \cup RangeOf(B) \subseteq Alphabet) =>
                 B \notin WithinEdits(A, KeyCost - 1, Alphabet)

C27_Witness ==
    /\ last.call = "update"
    /\ last.before = <<"a", "U+00E9">>
    /\ last.arg = <<"a", "a">>
    /\ KeyCost = 2
    /\ last.arg \in WithinEdits(last.before, 2, Alphabet)

\* C28: the step in which the send of a binary frame fails ends send_task
\* with the error, with no frame sent and no chunk taken; from then on
\* send_task sends no frame, takes no chunk and stays ended with the error,
\* and no CloseStream was or is sent.
C28_BinarySendFailureStops ==
    /\ [][((send_pc = "send_audio" /\ send_res' = "err") =>
             (/\ send_pc' = "done"
              /\ sent' = sent
              /\ audio_rx' = audio_rx))]_vars
    /\ [][(send_res = "err" =>
             (/\ sent' = sent
              /\ send_pc' = "done" /\ send_res' = "err"
              /\ audio_data' = audio_data
              /\ \A i \in 1..Len(audio_rx) :
                   i <= Len(audio_rx') /\ audio_rx'[i] = audio_rx[i]))]_vars
    /\ [](send_res = "err" => CloseStreamCount = 0)

C28_Witness ==
    /\ send_res = "err"
    /\ send_pc = "done"
    /\ sent = <<>>
    /\ produced = 2
    /\ Len(audio_rx) = 1
    /\ ~audio_tx_open

\* C29: every frame send_task has sent is a binary audio frame or the
\* CloseStream text frame, of which there is at most one, and no step after
\* the queue's closing sends anything else.
C29_ClientNeverCloses ==
    /\ \A i \in 1..Len(sent) : sent[i].kind \in {"Binary", "CloseStream"}
    /\ CloseStreamCount <= 1
    /\ send_pc = "done" => \A i \in 1..Len(sent) : sent[i].kind # "Close"

C29_Witness ==
    /\ ~audio_tx_open
    /\ send_pc = "done"
    /\ send_res = "ok"
    /\ Len(sent) = 3
    /\ sent[3].kind = "CloseStream"
    /\ msg.kind = "Close"

\* a step of receive_task that reads a Connected or Configuration message
ReadsInformational ==
    /\ recv_pc = "next"
    /\ inbox # <<>>
    /\ inbox' = Tail(inbox)
    /\ Head(inbox).kind \in {"Connected", "Configuration"}

\* C30: the step that reads a Connected or Configuration message makes no
\* call of the callback, leaves receive_task in its loop with no result, and
\* leaves the handle and send_task as they are.
C30_InformationalOnly ==
    [][ReadsInformational =>
         /\ delivered' = delivered
         /\ recv_pc' = "next"
         /\ recv_res' = recv_res
         /\ recv_res' = "none"
         /\ handle' = handle
         /\ UNCHANGED <<send_pc, send_res, sent>>]_vars

C30_Witness ==
    /\ msg.kind = "Configuration"
    /\ msg.id = 2
    /\ recv_pc = "next"
    /\ recv_res = "none"
    /\ Len(delivered) = 1
    /\ inbox # <<>>
    /\ Head(inbox).kind = "Connected"

\* a step of receive_task that reads a text whose "type" is none of the four
\* or is missing
ReadsUntyped ==
    /\ recv_pc = "next"
    /\ inbox # <<>>
    /\ inbox' = Tail(inbox)
    /\ Head(inbox).kind \in {"UnknownType", "NoType"}

\* C31: the step that reads a text frame whose "type" is none of Connected,
\* TurnInfo, Error, Configuration, or that has no "type", ends receive_task
\* with an error and calls no callback; receive_task is never in its loop
\* with such a frame read last.
C31_UnknownTypeIsFatal ==
    /\ [][ReadsUntyped =>
            /\ recv_pc' = "done"
            /\ recv_res' = "err"
            /\ delivered' = delivered]_vars
    /\ [](msg.kind \in {"UnknownType", "NoType"} =>
            recv_pc = "done" /\ recv_res = "err")

C31_Witness ==
    /\ msg.kind = "NoType"
    /\ msg.id = 2
    /\ recv_res = "err"
    /\ Len(delivered) = 1
    /\ inbox # <<>>
    /\ Head(inbox).kind = "TurnInfo"

\* C32: whenever add_samples is not running, the bytes of all chunks returned
\* so far followed by the backlog are the PCM bytes of all samples given so
\* far, in order; inside a call the same holds with the chunks cut so far in
\* this call put between the two.
C32_NoByteLostOrAdded ==
    /\ audio_pc = "idle" => returned \o buffer = pcm_data(heard)
    /\ audio_pc = "drain" =>
          returned \o Flatten(chunks) \o buffer = pcm_data(heard)
    /\ Len(returned) + Len(buffer) <= 2 * Len(heard)

C32_Witness ==
    /\ audio_pc = "idle"
    /\ chunk_size = 4
    /\ heard = <<2, 0 - 1, 0 - 3>>
    /\ audio_last.backlog = 2
    /\ Len(chunks) = 1
    /\ returned = pcm_data(<<2, 0 - 1>>)
    /\ buffer = pcm_data(<<0 - 3>>)

\* a step in which receive_task hands a result to the application's closure
HandsResult ==
    /\ recv_pc = "next"
    /\ inbox # <<>>
    /\ Head(inbox).kind = "TurnInfo"
    /\ inbox' = Tail(inbox)

\* C33: the step that hands a result to the closure makes exactly one call
\* on the keyboard: finalize_transcript when the event is "EndOfTurn", else
\* update_transcript with the result's transcript; no other step makes a
\* call on the keyboard.
C33_OneCallPerResult ==
    [][IF HandsResult
       THEN /\ calls' = calls + 1
            /\ Head(inbox).event = "EndOfTurn" => last'.call = "finalize"
            /\ Head(inbox).event # "EndOfTurn" =>
                  /\ last'.call = "update"
                  /\ last'.arg = Head(inbox).transcript
       ELSE calls' = calls /\ last' = last]_vars

C33_Witness ==
    /\ calls = 2
    /\ Len(delivered) = 2
    /\ delivered[1].event = "EndOfTurn"
    /\ delivered[2].event = "EagerEndOfTurn"
    /\ delivered[2].transcript = <<"a", "a">>
    /\ last.call = "update"
    /\ last.arg = <<"a", "a">>
    /\ last.before = <<>>

\* C34: right after a call that a failed key operation has aborted,
\* current_text is the chars typed less the chars backspaced by the
\* operations that succeeded since the last reset, those of the aborted call
\* included.
C34_AbortedCallKeepsTrackedText ==
    (last.result = "Err" /\ faithful) => current_text = net

\* C35: among the operations a call of update_transcript has issued no
\* backspace comes after a type_text, and among those of finalize_transcript
\* no backspace comes after the commit, of which there is at most one and
\* with which no text is typed.
C35_BackspacesFirst ==
    /\ last.call = "update" =>
          /\ NumEnters(ops) = 0
          /\ \A i, j \in 1..Len(ops) :
               (i < j /\ ops[i].op = "type_text") =>
                   ops[j].op # "press_backspace"
    /\ last.call = "finalize" =>
          /\ NumEnters(ops) <= 1
          /\ TypedText(ops) = <<>>
          /\ \A i, j \in 1..Len(ops) :
               (i < j /\ ops[i].op = "press_enter") =>
                   ops[j].op # "press_backspace"

C35_Witness ==
    /\ last.call = "update"
    /\ last.result = "Ok"
    /\ Len(ops) = 3
    /\ ops[1].op = "press_backspace"
    /\ ops[2].op = "press_backspace"
    /\ ops[3].op = "type_text"
    /\ Len(ops[3].text) >= 2
    /\ hardware = "Real"

\* C36: at most one run of the closure is ever under way, and it is the one
\* receive_task is in, for the result it read last; every step that makes a
\* call on the keyboard is a step of that run, makes one call and ends the
\* run; and the calls made are those for the results read, in their order.
C36_CallsNeverOverlap ==
    /\ [](Len(kb_lock) <= 1)
    /\ [](kb_lock # <<>> => recv_pc = "callback" /\ kb_lock = <<msg.id>>)
    /\ [](calls + Len(kb_lock) = Len(delivered))
    /\ [][(calls' # calls \/ ops' # ops \/ typed_chars' # typed_chars) =>
            (/\ kb_lock = <<delivered[Len(delivered)].id>>
             /\ kb_lock' = <<>>
             /\ calls' = calls + 1)]_vars

C36_Witness ==
    /\ kb_lock = <<2>>
    /\ recv_pc = "callback"
    /\ calls = 1
    /\ typed_chars # <<>>
    /\ send_pc = "done"
    /\ inbox # <<>>
    /\ Head(inbox).kind = "TurnInfo"

\* C37: after any call on the keyboard has returned, with Ok or with Err, no
\* key is down: every key-down event written to the device has been followed
\* by the key-up event of the same key.
C37_NoKeyLeftDown == calls > 0 => keys_down = {}

\* the digit keys, in the order of the digits '0'..'9'
DigitKeys ==
    <<KEY_0, KEY_1, KEY_2, KEY_3, KEY_4, KEY_5, KEY_6, KEY_7, KEY_8, KEY_9>>

\* C38: char_to_keycode maps every digit of a text given to the keyboard to
\* the key code of that digit's own key, KEY_0 for '0' up to KEY_9 for '9',
\* without shift.
C38_DigitsMapToDigitKeys ==
    \A i \in 1..Len(last.arg) :
        last.arg[i] \in RangeOf(Digits) =>
            char_to_keycode(last.arg[i]) =
                Some(DigitKeys[IndexIn(Digits, last.arg[i])], FALSE)

\* C39: every call of add_samples returns, whatever the samples and whatever
\* the configuration the buffer was made with, a chunk_size of 0 included:
\* every turn of its loop leaves the buffer shorter, and a call that has
\* entered the loop comes to its return.
C39_AddSamplesReturns ==
    /\ [][DrainChunk => Len(buffer') < Len(buffer)]_vars
    /\ (audio_pc = "drain") ~> (audio_pc = "idle")

====
